---- MODULE Spec2Model ----
(***************************************************************************)
(* The observable graph engine of legend-state: the node model, the proxy  *)
(* handler, the write pipeline (set / setKey / assign / delete /           *)
(* collectionSetter / updateNodes) of src/src/observable.ts and the        *)
(* primitive wrapper of src/unnamed/part_000.                              *)
(*                                                                         *)
(* JavaScript values are modelled with a heap: an object or array is a     *)
(* heap cell and a value holding it is a reference, so that identity       *)
(* (!==), in-place mutation and aliasing are what they are in the code.    *)
(***************************************************************************)
EXTENDS Integers, Sequences, FiniteSets, TLC

(***************************************************************************)
(* Bounds of the model.                                                    *)
(***************************************************************************)
MaxOps == 3
MaxDepth == 3

(***************************************************************************)
(* Values.  v is a number for a primitive, a heap address for a reference  *)
(* and a node id for an observable proxy handed in as a value.             *)
(***************************************************************************)
Undef == [t |-> "undef", v |-> 0]
Prim(n) == [t |-> "prim", v |-> n]
Ref(a) == [t |-> "ref", v |-> a]
ObsV(n) == [t |-> "obs", v |-> n]
symbolUndef == [t |-> "symbolUndef", v |-> 0]

symbolUndefKey == "symbolUndef"
NoKey == "undefined"
EmptyF == [k \in {} |-> 0]

IdxKeys == <<"0", "1", "2", "3">>
KeyOrder == IdxKeys \o <<"a", "b", "id", "value", "error">>
Keys == {KeyOrder[i] : i \in DOMAIN KeyOrder}
IsIdx(k) == \E i \in DOMAIN IdxKeys : IdxKeys[i] = k
IdxOf(k) == (CHOOSE i \in DOMAIN IdxKeys : IdxKeys[i] = k) - 1
IdxKey(i) == IdxKeys[i + 1]

(***************************************************************************)
(* is.ts                                                                   *)
(***************************************************************************)
isPrimitive(x) == x.t = "prim"
isArray(h, x) == x.t = "ref" /\ h[x.v].arr
isObject(h, x) == (x.t = "ref" /\ ~h[x.v].arr) \/ x.t = "obs"
isFunction(x) == x.t = "fn"
Truthy(x) == x.t # "undef"

(***************************************************************************)
(* Plain data as a tree (a literal the caller writes, or what a listener   *)
(* or a reader sees when it inspects a value).                             *)
(***************************************************************************)
LU == [t |-> "undef", v |-> 0, f |-> EmptyF]
LP(n) == [t |-> "prim", v |-> n, f |-> EmptyF]
LObj(f) == [t |-> "obj", v |-> 0, f |-> f]
LArr(q) == [t |-> "arr", v |-> Len(q), f |-> [k \in {IdxKey(i - 1) : i \in DOMAIN q} |-> q[IdxOf(k) + 1]]]
LCut == [t |-> "cut", v |-> 0, f |-> EmptyF]
\* an updater function given to set: LFn(0) is prev => prev, LFn(k) is () => k
LFn(k) == [t |-> "fn", v |-> k, f |-> EmptyF]

RECURSIVE Snapshot(_, _, _)
Snapshot(h, x, d) ==
    IF x.t = "ref"
    THEN IF d = 0 THEN LCut
         ELSE [t |-> IF h[x.v].arr THEN "arr" ELSE "obj",
               v |-> h[x.v].len,
               f |-> [k \in DOMAIN h[x.v].f |-> Snapshot(h, h[x.v].f[k], d - 1)]]
    ELSE [t |-> x.t, v |-> x.v, f |-> EmptyF]

Snap(s, x) == Snapshot(s.heap, x, MaxDepth)

\* Object.keys(x), in the order of KeyOrder
KeysOf(h, x) == IF x.t = "ref" THEN SelectSeq(KeyOrder, LAMBDA k : k \in DOMAIN h[x.v].f) ELSE <<>>

\* x[k]
Lookup(h, x, k) == IF x.t = "ref" /\ k \in DOMAIN h[x.v].f THEN h[x.v].f[k] ELSE Undef

\* x.length (-1 stands for undefined)
LengthOf(h, x) == IF isArray(h, x) THEN h[x.v].len ELSE -1

Throw(s, e) == [s EXCEPT !.err = e]

\* new object / array cell
NewCell(s, arr, len, f) ==
    [s |-> [s EXCEPT !.heap = Append(@, [arr |-> arr, len |-> len, f |-> f])], x |-> Ref(Len(s.heap) + 1)]

RECURSIVE Alloc(_, _)
RECURSIVE AllocFields(_, _, _, _)
AllocFields(s, lit, i, acc) ==
    IF i > Len(KeyOrder) THEN [s |-> s, f |-> acc]
    ELSE IF KeyOrder[i] \notin DOMAIN lit.f THEN AllocFields(s, lit, i + 1, acc)
    ELSE LET r == Alloc(s, lit.f[KeyOrder[i]])
         IN AllocFields(r.s, lit, i + 1, (KeyOrder[i] :> r.x) @@ acc)

\* the value of a literal, its objects freshly allocated
Alloc(s, lit) ==
    IF lit.t \in {"obj", "arr"}
    THEN LET r == AllocFields(s, lit, 1, EmptyF)
         IN NewCell(r.s, lit.t = "arr", lit.v, r.f)
    ELSE [s |-> s, x |-> [t |-> lit.t, v |-> lit.v]]

(***************************************************************************)
(* State.                                                                  *)
(***************************************************************************)
VARIABLES
    roots,       \* root id -> [val, safeMode, locked]: the ObservableWrapper
    heap,        \* address -> [arr, len, f]
    nodes,       \* node id -> [root, parent, key, children, proxy]
    listeners,   \* listener id -> [node, track]
    tracked,     \* the reads recorded by updateTracking: {[node, shallow]}
    inSet,
    inAssign,
    numInBatch,
    batch,       \* the deferred notifications: <<[l, value, prev]>>
    fired,       \* the listener calls made by the last operation
    invoked,     \* the updater functions called by the last operation: <<[fn, arg]>>
    result,      \* the last operation: [op, node, err, ret]
    ops          \* number of operations performed

vars == <<roots, heap, nodes, listeners, tracked, inSet, inAssign, numInBatch, batch, fired, invoked, result, ops>>

Cur ==
    [roots |-> roots, heap |-> heap, nodes |-> nodes, listeners |-> listeners, tracked |-> tracked,
     inSet |-> inSet, inAssign |-> inAssign, numInBatch |-> numInBatch,
     batch |-> batch, fired |-> <<>>, invoked |-> <<>>, levels |-> <<>>, traps |-> <<>>,
     err |-> "", trap |-> TRUE, ret |-> Undef]

RootOf(s, n) == s.roots[s.nodes[n].root]

(***************************************************************************)
(* globals.ts                                                              *)
(***************************************************************************)
RECURSIVE getNodeValue(_, _)
getNodeValue(s, n) ==
    IF s.nodes[n].parent = 0 THEN s.roots[s.nodes[n].root].val
    ELSE Lookup(s.heap, getNodeValue(s, s.nodes[n].parent), s.nodes[n].key)

getChildNode(s, n, k) ==
    IF k \in DOMAIN s.nodes[n].children
    THEN [s |-> s, n |-> s.nodes[n].children[k]]
    ELSE LET id == Len(s.nodes) + 1
             child == [root |-> s.nodes[n].root, parent |-> n, key |-> k,
                       children |-> EmptyF, proxy |-> FALSE]
             withKey == [s.nodes EXCEPT ![n].children = (k :> id) @@ s.nodes[n].children]
         IN [s |-> [s EXCEPT !.nodes = Append(withKey, child)], n |-> id]

\* container[k] = x on a heap cell
StoreAt(s, c, k, x) ==
    LET o == s.heap[c.v]
        len == IF o.arr /\ IsIdx(k) /\ IdxOf(k) >= o.len THEN IdxOf(k) + 1 ELSE o.len
    IN [s EXCEPT !.heap[c.v] = [arr |-> o.arr, len |-> len, f |-> (k :> x) @@ o.f]]

\* delete container[k] on a heap cell
DeleteAt(s, c, k) ==
    LET o == s.heap[c.v]
    IN [s EXCEPT !.heap[c.v] = [arr |-> o.arr, len |-> o.len, f |-> [j \in DOMAIN o.f \ {k} |-> o.f[j]]]]

RECURSIVE ensureNodeValue(_, _)
ensureNodeValue(s, n) ==
    LET value == getNodeValue(s, n)
    IN IF Truthy(value) THEN [s |-> s, x |-> value]
       ELSE IF s.nodes[n].parent = 0
            THEN LET c == NewCell(s, FALSE, 0, EmptyF)
                 IN [s |-> [c.s EXCEPT !.roots[s.nodes[n].root].val = c.x], x |-> c.x]
            ELSE LET p == ensureNodeValue(s, s.nodes[n].parent)
                 IN IF p.s.err # "" THEN p
                    ELSE IF p.x.t # "ref" THEN [s |-> Throw(p.s, "TypeError"), x |-> Undef]
                    ELSE LET c == NewCell(p.s, FALSE, 0, EmptyF)
                         IN [s |-> StoreAt(c.s, p.x, s.nodes[n].key, c.x), x |-> c.x]

(***************************************************************************)
(* tracking.ts                                                             *)
(***************************************************************************)
updateTracking(s, n, shallow) == [s EXCEPT !.tracked = @ \cup {[node |-> n, shallow |-> shallow]}]
untrack(s, n) == [s EXCEPT !.tracked = {e \in @ : e.node # n}]

(***************************************************************************)
(* batching.ts and notify.ts                                               *)
(***************************************************************************)
beginBatch(s) == [s EXCEPT !.numInBatch = @ + 1]

\* A function of the caller (a listener, or an updater given to set) may
\* itself write through a proxy.  The bodies considered: "assign" is
\* o.a = 2 and "delete" is delete o.a, with o the proxy of the first root;
\* "log" writes nothing.  What the trap returned is logged in traps.
RECURSIVE proxySet(_, _, _, _)
RECURSIVE deleteProperty(_, _, _)
nestedTrap(s1, s) == [s1 EXCEPT !.traps = Append(@, s1.trap), !.trap = s.trap, !.ret = s.ret]
runCallback(s, cb) ==
    IF cb = "assign" THEN nestedTrap(proxySet(s, 1, "a", Prim(2)), s)
    ELSE IF cb = "delete" THEN nestedTrap(deleteProperty(s, 1, "a"), s)
    ELSE s

\* persistObservable.ts lines 26-46: onObsChange up to its first await, for
\* the observable of root r.  persistenceLocal.setValue is logged in invoked
\* with fn -5 and persistenceRemote.save with fn -4.
onObsChangeRemote(s, r, value) ==
    IF ~s.roots[r].persist.tempDisableSaveRemote /\ s.roots[r].persist.remote = "readwrite"
    THEN [s EXCEPT !.invoked = Append(@, [fn |-> -4, arg |-> value])]
    ELSE s

onObsChange(s, r, value) ==
    onObsChangeRemote(IF s.roots[r].persist.local
                      THEN [s EXCEPT !.invoked = Append(@, [fn |-> -5, arg |-> value])]
                      ELSE s,
                      r, value)

\* the call of listener l ("persist" is the listener persistObservable
\* registers at line 137)
callListener(s, l, value, prev) ==
    IF s.listeners[l].cb = "persist"
    THEN onObsChange([s EXCEPT !.fired = Append(@, [l |-> l, value |-> value, prev |-> prev])],
                     s.nodes[s.listeners[l].node].root, value)
    ELSE runCallback([s EXCEPT !.fired = Append(@, [l |-> l, value |-> value, prev |-> prev])],
                     s.listeners[l].cb)

\* a deferred notification is kept once per listener: the previous value of the
\* first one raised, the value of the last one raised
batchNotify(s, l, value, prev) ==
    IF s.numInBatch > 0
    THEN IF \E i \in DOMAIN s.batch : s.batch[i].l = l
         THEN [s EXCEPT !.batch = [i \in DOMAIN s.batch |->
                    IF s.batch[i].l = l THEN [s.batch[i] EXCEPT !.value = value] ELSE s.batch[i]]]
         ELSE [s EXCEPT !.batch = Append(@, [l |-> l, value |-> value, prev |-> prev])]
    ELSE callListener(s, l, value, prev)

\* the deferred notifications are dispatched in the order they were raised
RECURSIVE runBatch(_, _, _)
runBatch(s, calls, i) ==
    IF i > Len(calls) THEN s
    ELSE runBatch(callListener(s, calls[i].l, calls[i].value, calls[i].prev), calls, i + 1)

endBatch(s) ==
    IF s.numInBatch - 1 <= 0
    THEN runBatch([s EXCEPT !.numInBatch = 0, !.batch = <<>>], s.batch, 1)
    ELSE [s EXCEPT !.numInBatch = @ - 1]

\* onChange.ts: a listener of the node, with its tracking type and the body
\* of its callback
onChangeDo(s, n, track, cb) ==
    [s EXCEPT !.listeners = Append(@, [node |-> n, track |-> track, cb |-> cb])]
onChange(s, n, track) == onChangeDo(s, n, track, "log")

HasListeners(s, n) == \E l \in DOMAIN s.listeners : s.listeners[l].node = n

ListenerOk(track, level, whenOptimizedOnlyIf) ==
    CASE track = "shallow" -> level <= 0
      [] track = "optimize" -> whenOptimizedOnlyIf /\ level <= 0
      [] OTHER -> TRUE

RECURSIVE doNotifyFrom(_, _, _, _, _, _, _)
doNotifyFrom(s, n, value, prev, level, whenOptimizedOnlyIf, l) ==
    IF l > Len(s.listeners) THEN s
    ELSE doNotifyFrom(IF /\ s.listeners[l].node = n
                         /\ ListenerOk(s.listeners[l].track, level, whenOptimizedOnlyIf)
                      THEN batchNotify(s, l, value, prev)
                      ELSE s,
                      n, value, prev, level, whenOptimizedOnlyIf, l + 1)

\* value and prev are what the listener is given, as plain data
doNotify(s, n, value, prev, level, whenOptimizedOnlyIf) ==
    doNotifyFrom(s, n, value, prev, level, whenOptimizedOnlyIf, 1)

\* the walk up the ancestors: each is given its own value, and the value it had
\* in pre, the state before the write
RECURSIVE notifyUp(_, _, _, _, _)
notifyParent(s1, pre, n, level, whenOptimizedOnlyIf) ==
    IF s1.nodes[n].parent = 0 THEN s1
    ELSE notifyUp(s1, pre, s1.nodes[n].parent, level, whenOptimizedOnlyIf)

notifyUp(s, pre, n, level, whenOptimizedOnlyIf) ==
    notifyParent(doNotify(s, n, Snap(s, getNodeValue(s, n)), Snap(pre, getNodeValue(pre, n)),
                          level, whenOptimizedOnlyIf),
                 pre, n, level, whenOptimizedOnlyIf)

notify(s, pre, n, newValue, prevValue, level, whenOptimizedOnlyIf) ==
    notifyParent(doNotify(s, n, Snap(s, newValue), Snap(s, prevValue), level, whenOptimizedOnlyIf),
                 pre, n, level, whenOptimizedOnlyIf)

(***************************************************************************)
(* observable.ts: updateNodes                                              *)
(***************************************************************************)
IdFields == <<"id", "_id", "__id">>

\* lines 91-92: the id field sniffed from the first previous element ("" is undefined)
IdFieldOf(h, p) ==
    IF \E i \in DOMAIN IdFields : Lookup(h, p, IdFields[i]) # Undef
    THEN IdFields[CHOOSE i \in DOMAIN IdFields :
            /\ Lookup(h, p, IdFields[i]) # Undef
            /\ \A j \in 1..(i - 1) : Lookup(h, p, IdFields[j]) = Undef]
    ELSE ""

\* lines 95-102: id -> previous index, a later element overriding an earlier one
KeyMapOf(h, prevValue, idField) ==
    LET idx == {i \in 0..(h[prevValue.v].len - 1) : Truthy(Lookup(h, prevValue, IdxKey(i)))}
        idAt(i) == Lookup(h, Lookup(h, prevValue, IdxKey(i)), idField)
    IN [x \in {idAt(i) : i \in idx} |-> CHOOSE i \in idx : idAt(i) = x /\ \A j \in idx : idAt(j) = x => j <= i]

RECURSIVE updateNodes(_, _, _, _)
RECURSIVE removedLoop(_, _, _, _, _, _)
RECURSIVE mainLoop(_, _, _, _, _, _)

\* lines 120-122
removedNotify(s1, child, prev) ==
    IF HasListeners(s1, child) THEN doNotify(s1, child, LU, Snap(s1, prev), 0, FALSE) ELSE s1

\* lines 113-122, c the child node of the removed key
removedKey(c, prev) ==
    removedNotify(IF ~isPrimitive(prev) THEN updateNodes(c.s, c.n, Undef, prev).s ELSE c.s, c.n, prev)

\* lines 110-124
removedLoop(s, parent, keysNew, prevValue, keysPrev, i) ==
    IF i > Len(keysPrev) THEN s
    ELSE removedLoop(IF keysPrev[i] \in keysNew THEN s
                     ELSE removedKey(getChildNode(s, parent, keysPrev[i]),
                                     Lookup(s.heap, prevValue, keysPrev[i])),
                     parent, keysNew, prevValue, keysPrev, i + 1)

\* lines 178-186
elementNotify(s2, child, isDiff, value, prev, c, out) ==
    [out EXCEPT !.s = IF (isDiff \/ ~c.isArrDiff) /\ HasListeners(s2, child)
                      THEN doNotify(s2, child, Snap(s2, value), Snap(s2, prev), 0, ~c.isArrDiff)
                      ELSE s2]

\* lines 163-177; e is [key, value, prev, keyChild, isMove]
elementDiff(acc, s1, child, moved, prevValue, c, e) ==
    LET isDiff == IF e.isMove THEN Lookup(s1.heap, prevValue, e.keyChild) # e.value ELSE TRUE
    IN elementNotify(IF isDiff /\ ~isPrimitive(e.value)
                     THEN updateNodes(s1, child, e.value, e.prev).s
                     ELSE s1,
                     child, isDiff, e.value, e.prev, c,
                     [s |-> s1, hasADiff |-> acc.hasADiff \/ isDiff,
                      didMove |-> acc.didMove \/ e.isMove, moved |-> moved])

\* lines 155-159: the node of the previous position takes the element's key
elementMoved(acc, c1, prevValue, c, e) ==
    elementDiff(acc, [c1.s EXCEPT !.nodes[c1.n].key = e.key], c1.n,
                Append(acc.moved, <<e.key, c1.n>>), prevValue, c, e)

\* elementChild without the test of line 155: the node of the previous position
\* takes the element's key whether or not the array's length changed
elementChildAlwaysMoves(acc, c0, parent, prevValue, c, e) ==
    IF e.isMove
    THEN elementMoved(acc, getChildNode(c0.s, parent, e.keyChild), prevValue, c, e)
    ELSE elementDiff(acc, c0.s, c0.n, acc.moved, prevValue, c, e)

\* lines 143-161, c0 the child node of the element's key
elementChild(acc, c0, parent, prevValue, c, e) ==
    IF e.isMove /\ c.isArrDiff
    THEN elementMoved(acc, getChildNode(c0.s, parent, e.keyChild), prevValue, c, e)
    ELSE elementDiff(acc, c0.s, c0.n, acc.moved, prevValue, c, e)

\* lines 140-187: an element whose value differs from the previous value at its key
element(acc, parent, prevValue, c, key, value, prev) ==
    LET id == IF c.idField = "" THEN Undef ELSE Lookup(acc.s.heap, value, c.idField)
        hasKeyChild == c.isArr /\ id # Undef /\ c.hasMap /\ id \in DOMAIN c.keyMap
        keyChild == IF hasKeyChild THEN IdxKey(c.keyMap[id]) ELSE key
    IN elementChild(acc, getChildNode(acc.s, parent, key), parent, prevValue, c,
                    [key |-> key, value |-> value, prev |-> prev, keyChild |-> keyChild,
                     isMove |-> hasKeyChild /\ keyChild # key])

KeyAt(c, i) == IF c.isArr THEN IdxKey(i - 1) ELSE c.keys[i]

\* lines 134-188; acc is [s, hasADiff, didMove, moved]
mainLoop(acc, parent, obj, prevValue, c, i) ==
    IF i > c.length THEN acc
    ELSE mainLoop(IF Lookup(acc.s.heap, obj, KeyAt(c, i)) = Lookup(acc.s.heap, prevValue, KeyAt(c, i))
                  THEN acc
                  ELSE element(acc, parent, prevValue, c, KeyAt(c, i),
                               Lookup(acc.s.heap, obj, KeyAt(c, i)),
                               Lookup(acc.s.heap, prevValue, KeyAt(c, i))),
                  parent, obj, prevValue, c, i + 1)

\* lines 190-195
RECURSIVE setMoved(_, _, _, _)
setMoved(s, parent, moved, i) ==
    IF i > Len(moved) THEN s
    ELSE setMoved([s EXCEPT !.nodes[parent].children = (moved[i][1] :> moved[i][2]) @@ @],
                  parent, moved, i + 1)

\* lines 190-199
updateNodesEnd(r, parent) ==
    [s |-> setMoved(r.s, parent, r.moved, 1), ret |-> r.hasADiff \/ r.didMove]

\* lines 127-203
updateNodesMain(s1, parent, obj, prevValue, c) ==
    IF Truthy(obj)
    THEN updateNodesEnd(mainLoop([s |-> s1, hasADiff |-> c.isArrDiff, didMove |-> FALSE, moved |-> <<>>],
                                 parent, obj, prevValue, c, 1),
                        parent)
    ELSE [s |-> s1, ret |-> Truthy(prevValue)]

\* lines 76-105, 128-131: what the loops read
updateNodesContext(h, obj, prevValue) ==
    LET isArr == isArray(h, obj)
        p == Lookup(h, prevValue, IdxKey(0))
        idField == IF isArr /\ isArray(h, prevValue) /\ h[prevValue.v].len > 0 /\ Truthy(p)
                   THEN IdFieldOf(h, p) ELSE ""
        keys == IF isArr THEN <<>> ELSE KeysOf(h, obj)
    IN [isArr |-> isArr,
        isArrDiff |-> ~isArr \/ LengthOf(h, obj) # LengthOf(h, prevValue),
        idField |-> idField,
        hasMap |-> idField # "",
        keyMap |-> IF idField # "" THEN KeyMapOf(h, prevValue, idField) ELSE EmptyF,
        keys |-> keys,
        length |-> IF isArr THEN h[obj.v].len ELSE Len(keys)]

\* lines 75-204; ret is the truthiness of what updateNodes returns
updateNodes(s, parent, obj, prevValue) ==
    updateNodesMain(
        IF ~(isArray(s.heap, obj) /\ isArray(s.heap, prevValue)) /\ Truthy(prevValue)
        THEN removedLoop(s, parent,
                         IF obj.t = "ref" /\ ~isArray(s.heap, obj) THEN DOMAIN s.heap[obj.v].f ELSE {},
                         prevValue, KeysOf(s.heap, prevValue), 1)
        ELSE s,
        parent, obj, prevValue, updateNodesContext(s.heap, obj, prevValue))

(***************************************************************************)
(* observable.ts: getProxy, setKey, set, assign, deleteFn                  *)
(***************************************************************************)
\* lines 206-212; p = NoKey is a call without p
MarkProxy(c) == [s |-> [c.s EXCEPT !.nodes[c.n].proxy = TRUE], n |-> c.n]
getProxy(s, n, p) == MarkProxy(IF p = NoKey THEN [s |-> s, n |-> n] ELSE getChildNode(s, n, p))

ReturnProxy(px) == [px.s EXCEPT !.ret = ObsV(px.n)]

\* lines 450-452
setKeyReturn(s8, node, isRoot, key) ==
    ReturnProxy(getProxy([s8 EXCEPT !.inSet = FALSE], node, IF isRoot THEN NoKey ELSE key))

\* a level that looks at the previous value only
LevelOfPrev(level, prevValue, hasADiff) ==
    IF prevValue = Undef THEN -1 ELSE IF hasADiff THEN 0 ELSE 1

\* line 443: level ?? prevValue === undefined ? -1 : hasADiff ? 0 : 1
\* (level is <<>> when the caller passes none)
LevelOf(level, prevValue, hasADiff) ==
    IF (IF level # <<>> THEN level[1] # 0 ELSE prevValue = Undef) THEN -1
    ELSE IF hasADiff THEN 0 ELSE 1

\* a setKey that notifies only when the value stored differs from the previous
setKeyNotifyIfDiffers(u, whenOptimizedOnlyIf, w) ==
    setKeyReturn(endBatch(IF w.newValue # w.prevValue
                          THEN notify([u.s EXCEPT !.levels = Append(@, LevelOf(w.level, w.prevValue, u.ret))],
                                      w.pre, IF w.isPrim /\ w.isRoot THEN w.node ELSE w.childNode,
                                      w.newValue, w.prevValue,
                                      LevelOf(w.level, w.prevValue, u.ret), whenOptimizedOnlyIf)
                          ELSE u.s),
                 w.node, w.isRoot, w.key)

\* lines 437-448; u is what updateNodes returned, w is [pre, node, childNode,
\* isRoot, key, isPrim, newValue, prevValue, level]
setKeyNotify(u, whenOptimizedOnlyIf, w) ==
    setKeyReturn(endBatch(IF ~w.isPrim \/ w.newValue # w.prevValue
                          THEN notify([u.s EXCEPT !.levels = Append(@, LevelOf(w.level, w.prevValue, u.ret))],
                                      w.pre, IF w.isPrim /\ w.isRoot THEN w.node ELSE w.childNode,
                                      w.newValue, w.prevValue,
                                      LevelOf(w.level, w.prevValue, u.ret), whenOptimizedOnlyIf)
                          ELSE u.s),
                 w.node, w.isRoot, w.key)

\* lines 427-435
setKeyDiff(s6, w) ==
    setKeyNotify(IF ~w.isPrim \/ ~isPrimitive(w.prevValue)
                 THEN updateNodes(s6, w.childNode, w.newValue, w.prevValue)
                 ELSE [s |-> s6, ret |-> w.isPrim],
                 /\ ~w.isPrim \/ ~isPrimitive(w.prevValue)
                 /\ isArray(s6.heap, w.newValue)
                 /\ LengthOf(s6.heap, w.newValue) # LengthOf(s6.heap, w.prevValue),
                 w)

\* lines 424-425
setKeyBatch(s5, w) == IF s5.err # "" THEN s5 ELSE setKeyDiff(beginBatch(s5), w)

\* lines 417-422: parentValue[key] = newValue, or delete parentValue[key]
StoreNew(s, n, isRoot, parentValue, key, isDelete, newValue) ==
    IF isRoot
    THEN [s EXCEPT !.roots[s.nodes[n].root].val = IF isDelete THEN Undef ELSE newValue]
    ELSE IF parentValue.t = "ref"
         THEN IF isDelete THEN DeleteAt(s, parentValue, key) ELSE StoreAt(s, parentValue, key, newValue)
         ELSE IF isDelete THEN s ELSE Throw(s, "TypeError")

\* LFn(6) is () => { throw new Error() }
updaterThrows(s, f) == IF f.v = 6 THEN Throw(s, "Error") ELSE s

\* newValue(prevValue): the call of an updater function, logged in invoked
\* (LFn(4) is prev => { o.a = 2; return 3 }, LFn(5) is prev => { delete o.a; return 3 })
callFn(s, f, prevValue) ==
    [s |-> updaterThrows(runCallback([s EXCEPT !.invoked = Append(@, [fn |-> f.v, arg |-> Snap(s, prevValue)])],
                                     IF f.v = 4 THEN "assign" ELSE IF f.v = 5 THEN "delete" ELSE "log"),
                         f),
     x |-> IF f.v = 0 THEN prevValue ELSE IF f.v \in {4, 5} THEN Prim(3) ELSE Prim(f.v)]

\* lines 409-415: the value to store
setKeyValue(s4, nv0, prevValue) ==
    IF ~s4.inAssign /\ isFunction(nv0) THEN callFn(s4, nv0, prevValue)
    ELSE [s |-> s4, x |-> IF nv0.t = "obs" THEN getNodeValue(s4, nv0.v) ELSE nv0]

\* lines 417-422 and what follows; r.s is the state before the store and
\* r.x the value to store.  isPrim (line 381) is taken from the value as
\* given, before an updater function is called.
setKeyStoreNew(r, parentValue, childNode, node, key, nv0, isDelete, level, isRoot, prevValue) ==
    IF r.s.err # "" THEN r.s
    ELSE
    setKeyBatch(StoreNew(r.s, node, isRoot, parentValue, key, isDelete, r.x),
                [pre |-> r.s, node |-> node, childNode |-> childNode, isRoot |-> isRoot, key |-> key,
                 isPrim |-> isPrimitive(nv0), newValue |-> r.x, prevValue |-> prevValue,
                 level |-> level])

\* s4 is the state before the updater is called (when there is one)
setKeyPrev(s4, parentValue, childNode, node, key, nv0, isDelete, level, isRoot, prevValue) ==
    setKeyStoreNew(setKeyValue(s4, nv0, prevValue), parentValue, childNode, node, key, nv0,
                   isDelete, level, isRoot, prevValue)

\* lines 406-407
setKeyStore(s4, parentValue, childNode, node, key, nv0, isDelete, level, isRoot) ==
    setKeyPrev(s4, parentValue, childNode, node, key, nv0, isDelete, level, isRoot,
               IF isRoot THEN RootOf(s4, node).val ELSE Lookup(s4.heap, parentValue, key))

\* lines 409-415: an observable given as the new value is read with get()
setKeyParent(pv, childNode, node, key, nv0, isDelete, level, isRoot) ==
    IF pv.s.err # "" THEN pv.s
    ELSE setKeyStore(IF nv0.t = "obs" THEN updateTracking(pv.s, nv0.v, FALSE) ELSE pv.s,
                     pv.x, childNode, node, key, nv0, isDelete, level, isRoot)

\* lines 396-400, c the child node
setKeyChild(c, node, key, nv0, isDelete, level, isRoot) ==
    setKeyParent(IF isRoot THEN [s |-> untrack(c.s, c.n), x |-> Undef]
                 ELSE ensureNodeValue(untrack(c.s, c.n), node),
                 c.n, node, key, nv0, isDelete, level, isRoot)

\* line 391
IsRootKey(s, node, key, nv0) ==
    key = symbolUndefKey \/ (s.nodes[node].parent = 0 /\ key = "value" /\ isPrimitive(nv0))

\* lines 390-394; node = 0 is the parent a root node does not have
setKeyNode(s1, node, key, nv0, isDelete, level) ==
    IF node = 0 THEN Throw(s1, "TypeError")
    ELSE setKeyChild(IF IsRootKey(s1, node, key, nv0) THEN [s |-> s1, n |-> node]
                     ELSE getChildNode(s1, node, key),
                     node, key, nv0, isDelete, level, IsRootKey(s1, node, key, nv0))

\* lines 363-453
setKey(s0, node0, key0, newValue0, level) ==
    IF RootOf(s0, node0).locked THEN Throw(s0, "Locked")
    ELSE LET isDelete == newValue0 = symbolUndef
             nv0 == IF isDelete THEN Undef ELSE newValue0
             unwrap == isPrimitive(nv0) /\ key0 = "value" /\ isPrimitive(getNodeValue(s0, node0))
         IN setKeyNode([s0 EXCEPT !.inSet = TRUE],
                       IF unwrap THEN s0.nodes[node0].parent ELSE node0,
                       IF unwrap THEN s0.nodes[node0].key ELSE key0,
                       nv0, isDelete, level)

\* set that writes the node's key into the parent of its parent
setInGrandParent(s, n, newValue) ==
    LET p == s.nodes[n].parent
        g == IF p = 0 THEN 0 ELSE s.nodes[p].parent
    IN setKey(s, IF p = 0 THEN n ELSE IF g = 0 THEN p ELSE g,
              IF p = 0 THEN symbolUndefKey ELSE s.nodes[n].key, newValue, <<>>)

\* lines 355-361
set(s, n, newValue) ==
    setKey(s, IF s.nodes[n].parent = 0 THEN n ELSE s.nodes[n].parent,
           IF s.nodes[n].parent = 0 THEN symbolUndefKey ELSE s.nodes[n].key, newValue, <<>>)

\* lines 474-482; key = NoKey is a call without key
deleteFn(s, n, key) ==
    setKey(s, IF key = NoKey /\ s.nodes[n].parent # 0 THEN s.nodes[n].parent ELSE n,
           IF key = NoKey /\ s.nodes[n].parent # 0 THEN s.nodes[n].key ELSE key, symbolUndef, <<-1>>)

(***************************************************************************)
(* observable.ts: proxyHandler.set, proxyHandler.deleteProperty            *)
(***************************************************************************)
TrapResult(s, b) == [s EXCEPT !.trap = b]

\* proxySetAllowed without the test of the existing value (line 325)
proxySetAllowedByValue(s, n, prop, value) ==
    IF ~s.inAssign /\ RootOf(s, n).safeMode # 0
    THEN IF RootOf(s, n).safeMode = 2 THEN [s |-> s, n |-> n, ok |-> FALSE]
         ELSE [getChildNode(s, n, prop) EXCEPT !.n = n] @@
              [ok |-> ~(isObject(s.heap, value) \/ isArray(s.heap, value))]
    ELSE [s |-> s, n |-> n, ok |-> TRUE]

\* lines 319-328: ok is FALSE when safe mode refuses the assignment
proxySetAllowed(s, n, prop, value) ==
    IF ~s.inAssign /\ RootOf(s, n).safeMode # 0
    THEN IF RootOf(s, n).safeMode = 2 THEN [s |-> s, n |-> n, ok |-> FALSE]
         ELSE [getChildNode(s, n, prop) EXCEPT !.n = n] @@
              [ok |-> LET existing == getNodeValue(getChildNode(s, n, prop).s, getChildNode(s, n, prop).n)
                      IN ~(\/ isObject(s.heap, existing) \/ isArray(s.heap, existing)
                           \/ isObject(s.heap, value) \/ isArray(s.heap, value))]
    ELSE [s |-> s, n |-> n, ok |-> TRUE]

\* lines 330-331
proxySetApply(c, prop, value) ==
    IF c.ok THEN TrapResult(setKey(c.s, c.n, prop, value, <<>>), TRUE) ELSE TrapResult(c.s, FALSE)

\* lines 313-332.  Under inSet the assignment lands on the Node object itself
\* (Reflect.set on the proxy's target) and the stored value is not written.
proxySet(s, n, prop, value) ==
    IF s.inSet THEN TrapResult(s, TRUE)
    ELSE proxySetApply(proxySetAllowed(s, n, prop, value), prop, value)

\* lines 333-348
deleteProperty(s, target, prop) ==
    IF s.inSet THEN TrapResult(s, TRUE)
    ELSE IF RootOf(s, target).safeMode # 0 THEN TrapResult(s, FALSE)
    ELSE TrapResult(deleteFn(s, target, prop), TRUE)

\* Object.assign(proxy, value), line 466: one [[Set]] per own key of value, a
\* refused or throwing one ending the copy with an exception
RECURSIVE assignKeys(_, _, _, _, _)
assignNext(s1, n, value, keys, i) ==
    IF s1.err # "" THEN s1
    ELSE IF ~s1.trap THEN Throw(s1, "TypeError")
    ELSE assignKeys(s1, n, value, keys, i + 1)

assignKeys(s, n, value, keys, i) ==
    IF i > Len(keys) THEN s
    ELSE assignNext(proxySet(s, n, keys[i], Lookup(s.heap, value, keys[i])), n, value, keys, i)

\* lines 460-465
assignCoerce(s1, n) ==
    [(IF isPrimitive(RootOf(s1, n).val)
      THEN [s1 EXCEPT !.heap = Append(@, [arr |-> FALSE, len |-> 0, f |-> EmptyF]),
                      !.roots[s1.nodes[n].root].val = Ref(Len(s1.heap) + 1)]
      ELSE s1) EXCEPT !.inAssign = TRUE]

\* lines 467-471
assignEnd(s4, n) ==
    IF s4.err # "" THEN s4
    ELSE [endBatch([s4 EXCEPT !.inAssign = FALSE]) EXCEPT !.ret = ObsV(n), !.trap = TRUE]

\* assign without beginBatch and endBatch (lines 458, 469)
assignUnbatched(s, n, value) ==
    [assignKeys(assignCoerce(getProxy(s, n, NoKey).s, n), n, value, KeysOf(s.heap, value), 1)
        EXCEPT !.inAssign = (@ /\ assignKeys(assignCoerce(getProxy(s, n, NoKey).s, n), n, value,
                                             KeysOf(s.heap, value), 1).err # ""),
               !.ret = ObsV(n), !.trap = TRUE]

\* lines 455-472
assign(s, n, value) ==
    assignEnd(assignKeys(assignCoerce(beginBatch(getProxy(s, n, NoKey).s), n),
                         n, value, KeysOf(s.heap, value), 1),
              n)

(***************************************************************************)
(* observable.ts: collectionSetter and proxyHandler.get                    *)
(***************************************************************************)
\* the relative index given to splice and copyWithin, clamped to the length
SpliceStart(len, arg) ==
    IF arg.t # "prim" THEN 0 ELSE IF arg.v > len THEN len ELSE IF arg.v < 0 THEN 0 ELSE arg.v

RECURSIVE InsertSorted(_, _)
\* x inserted after the numbers of the ascending sequence q that are <= x
InsertSorted(q, x) ==
    IF q = <<>> THEN <<x>>
    ELSE IF q[1].v <= x.v THEN <<q[1]>> \o InsertSorted(Tail(q), x)
    ELSE <<x>> \o q

RECURSIVE SortNumbers(_)
SortNumbers(q) == IF q = <<>> THEN <<>> ELSE InsertSorted(SortNumbers(Tail(q)), q[1])

\* Array.prototype.sort without comparator on elements q (has[i] false for a
\* hole): the elements are compared as strings, so one-digit numbers come
\* first in ascending order, then the objects ("[object Object]") in their
\* previous order, then the undefined elements; the holes are moved to the
\* end and are not part of the sequence returned
DefaultSort(q, has) ==
    LET pick(T(_)) == SelectSeq([i \in DOMAIN q |-> IF has[i] /\ T(q[i]) THEN q[i] ELSE [t |-> "hole", v |-> 0]],
                                LAMBDA x : x.t # "hole")
    IN  SortNumbers(pick(LAMBDA x : x.t = "prim"))
        \o pick(LAMBDA x : x.t \notin {"prim", "undef"})
        \o pick(LAMBDA x : x.t = "undef")

\* Array.prototype[prop] applied in place to the cell at target; ret is what
\* the native method returns
NativeMutator(s, target, prop, arg) ==
    LET o == s.heap[target.v]
        at(i) == Lookup(s.heap, target, IdxKey(i))
        others == [k \in {j \in DOMAIN o.f : ~IsIdx(j)} |-> o.f[k]]
        cell(len, elem(_), has(_)) ==
            [arr |-> TRUE, len |-> len,
             f |-> [k \in {IdxKey(i) : i \in {j \in 0..(len - 1) : has(j)}} |-> elem(IdxOf(k))] @@ others]
        hasAt(i) == IdxKey(i) \in DOMAIN o.f
    IN CASE prop = "push" ->
              [s |-> StoreAt(s, target, IdxKey(o.len), arg), ret |-> Prim(o.len + 1)]
         [] prop = "pop" ->
              IF o.len = 0 THEN [s |-> s, ret |-> Undef]
              ELSE [s |-> [s EXCEPT !.heap[target.v] =
                              cell(o.len - 1, LAMBDA i : at(i), LAMBDA i : hasAt(i))],
                    ret |-> at(o.len - 1)]
         [] prop = "shift" ->
              IF o.len = 0 THEN [s |-> s, ret |-> Undef]
              ELSE [s |-> [s EXCEPT !.heap[target.v] =
                              cell(o.len - 1, LAMBDA i : at(i + 1), LAMBDA i : hasAt(i + 1))],
                    ret |-> at(0)]
         [] prop = "unshift" ->
              [s |-> [s EXCEPT !.heap[target.v] =
                              cell(o.len + 1, LAMBDA i : IF i = 0 THEN arg ELSE at(i - 1),
                                   LAMBDA i : i = 0 \/ hasAt(i - 1))],
               ret |-> Prim(o.len + 1)]
         [] prop = "fill" ->
              [s |-> [s EXCEPT !.heap[target.v] = cell(o.len, LAMBDA i : arg, LAMBDA i : TRUE)],
               ret |-> target]
         [] prop = "splice" ->  \* splice(start): the elements from start on are removed
              [s |-> [NewCell(s, TRUE, o.len - SpliceStart(o.len, arg), EmptyF).s EXCEPT
                          !.heap[Len(s.heap) + 1] =
                              cell(o.len - SpliceStart(o.len, arg),
                                   LAMBDA i : at(i + SpliceStart(o.len, arg)),
                                   LAMBDA i : hasAt(i + SpliceStart(o.len, arg))),
                          !.heap[target.v] =
                              cell(SpliceStart(o.len, arg), LAMBDA i : at(i), LAMBDA i : hasAt(i))],
               ret |-> Ref(Len(s.heap) + 1)]
         [] prop = "copyWithin" ->  \* copyWithin(to): the elements from 0 on are copied to to, to + 1, ...
              [s |-> [s EXCEPT !.heap[target.v] =
                              cell(o.len,
                                   LAMBDA i : IF i < SpliceStart(o.len, arg) THEN at(i)
                                              ELSE at(i - SpliceStart(o.len, arg)),
                                   LAMBDA i : IF i < SpliceStart(o.len, arg) THEN hasAt(i)
                                              ELSE hasAt(i - SpliceStart(o.len, arg)))],
               ret |-> target]
         [] prop = "sort" ->  \* sort() without comparator
              [s |-> [s EXCEPT !.heap[target.v] =
                              cell(o.len,
                                   LAMBDA i : DefaultSort([j \in 1..o.len |-> at(j - 1)],
                                                          [j \in 1..o.len |-> hasAt(j - 1)])[i + 1],
                                   LAMBDA i : i < Len(DefaultSort([j \in 1..o.len |-> at(j - 1)],
                                                                  [j \in 1..o.len |-> hasAt(j - 1)])))],
               ret |-> target]
         [] OTHER ->  \* reverse
              [s |-> [s EXCEPT !.heap[target.v] =
                              cell(o.len, LAMBDA i : at(o.len - 1 - i), LAMBDA i : hasAt(o.len - 1 - i))],
               ret |-> target]

\* lines 59-68, s1 the state with the previous array put back
collectionSetterSet(s1, n, target, ret) ==
    IF s1.err # "" THEN s1
    ELSE [setKey(s1, IF s1.nodes[n].parent # 0 THEN s1.nodes[n].parent ELSE n,
                 IF s1.nodes[n].parent # 0 THEN s1.nodes[n].key ELSE symbolUndefKey, target, <<>>)
          EXCEPT !.ret = ret]

\* lines 60-65: parentValue[key] = prevValue
RestorePrev(s, n, prevValue) ==
    IF s.nodes[n].parent = 0 THEN [s EXCEPT !.roots[s.nodes[n].root].val = prevValue]
    ELSE IF getNodeValue(s, s.nodes[n].parent).t = "ref"
         THEN StoreAt(s, getNodeValue(s, s.nodes[n].parent), s.nodes[n].key, prevValue)
         ELSE Throw(s, "TypeError")

\* lines 57-72, m the state and the return value of the native method
collectionSetterRestore(m, n, target, prevValue) ==
    collectionSetterSet(RestorePrev(m.s, n, prevValue), n, target, m.ret)

\* collectionSetter without the copy of line 55 and the restoration of
\* line 63: setKey is given the mutated array in place
collectionSetterInPlace(s, n, target, prop, arg) ==
    collectionSetterSet(NativeMutator(s, target, prop, arg).s, n, target,
                        NativeMutator(s, target, prop, arg).ret)

\* line 55: target.slice() copies the elements, not the named properties
SliceOf(f) == [k \in {j \in DOMAIN f : IsIdx(j)} |-> f[k]]

\* lines 54-73
collectionSetter(s, n, target, prop, arg) ==
    collectionSetterRestore(
        NativeMutator(NewCell(s, TRUE, s.heap[target.v].len, SliceOf(s.heap[target.v].f)).s, target, prop, arg),
        n, target, Ref(Len(s.heap) + 1))

\* lines 236-285, for a property p that is no function of the value
proxyGet(s, n, p) ==
    LET value == getNodeValue(s, n)
        vProp == IF p = "length" THEN Prim(LengthOf(s.heap, value)) ELSE Lookup(s.heap, value, p)
    IN  IF isPrimitive(value) /\ p = "value"
        THEN [updateTracking(s, n, FALSE) EXCEPT !.ret = value]
        ELSE IF isPrimitive(vProp) /\ isArray(s.heap, value) /\ p = "length"
        THEN [updateTracking(s, n, TRUE) EXCEPT !.ret = vProp]
        ELSE ReturnProxy(getProxy(s, n, p))

\* globals.ts: get and peek, reached through objectFns (lines 45-52, 224-234)
peek(s, n) == [s EXCEPT !.ret = getNodeValue(s, n)]
get(s, n) == peek(updateTracking(s, n, FALSE), n)

(***************************************************************************)
(* ObservablePrimitive.ts (src/unnamed/part_000)                           *)
(***************************************************************************)
\* The activate hook of a root is a function installed by the caller.  The
\* hooks considered: "hydrate" stores a value in root._; "peekOnce" and
\* "getOnce" read the wrapper they belong to, with peek() or get(), the first
\* time they run ("entered" is such a hook once it has run); "none" stands
\* for undefined.  A call of the hook is logged in invoked with fn = -1.
Hooks == {"hydrate", "peekOnce", "getOnce"}
activateCall == [fn |-> -1, arg |-> LU]

\* lines 29-30
primitivePeekEnd(s, n) == [s EXCEPT !.ret = RootOf(s, n).val]

\* line 27
primitivePeekClear(s, n) == primitivePeekEnd([s EXCEPT !.roots[s.nodes[n].root].activate = "none"], n)

RECURSIVE primitivePeek(_, _)
\* line 26: root.activate(), the body of the hook included
callActivate(s, n, hook) ==
    IF hook = "peekOnce"
    THEN primitivePeek([s EXCEPT !.invoked = Append(@, activateCall),
                                 !.roots[s.nodes[n].root].activate = "entered"], n)
    ELSE IF hook = "getOnce"
    THEN primitivePeek(updateTracking([s EXCEPT !.invoked = Append(@, activateCall),
                                                !.roots[s.nodes[n].root].activate = "entered"], n, FALSE), n)
    ELSE IF hook = "hydrate"
    THEN [s EXCEPT !.invoked = Append(@, activateCall), !.roots[s.nodes[n].root].val = Prim(2)]
    ELSE [s EXCEPT !.invoked = Append(@, activateCall)]

\* lines 23-30
primitivePeek(s, n) ==
    IF RootOf(s, n).activate # "none"
    THEN primitivePeekClear(callActivate(s, n, RootOf(s, n).activate), n)
    ELSE primitivePeekEnd(s, n)

\* lines 31-36
primitiveGet(s, n) == primitivePeek(updateTracking(s, n, FALSE), n)

\* lines 49-53
primitiveStore(s1, n, value, prev) ==
    [doNotify(s1, n, Snap(s1, value), Snap(s1, prev), 0, FALSE) EXCEPT !.ret = ObsV(n)]

\* lines 38-54
\* ObservablePrimitive.ts lines 42-54
primitiveSetValue(r, n) ==
    IF RootOf(r.s, n).locked THEN Throw(r.s, "Locked")
    ELSE primitiveStore([r.s EXCEPT !.roots[r.s.nodes[n].root].val = r.x], n, r.x, RootOf(r.s, n).val)

\* ObservablePrimitive.ts lines 38-41: an updater function is called first
primitiveSet(s, n, value) ==
    primitiveSetValue(IF isFunction(value) THEN callFn(s, value, RootOf(s, n).val)
                      ELSE [s |-> s, x |-> value], n)

(***************************************************************************)
(* The operations a caller performs, one action each.                      *)
(***************************************************************************)
Commit(s, op, n, key, arg) ==
    /\ roots' = s.roots
    /\ heap' = s.heap
    /\ nodes' = s.nodes
    /\ tracked' = s.tracked
    /\ inSet' = s.inSet
    /\ inAssign' = s.inAssign
    /\ numInBatch' = s.numInBatch
    /\ batch' = s.batch
    /\ fired' = s.fired
    /\ invoked' = s.invoked
    /\ result' = [op |-> op, node |-> n, key |-> key, arg |-> arg, levels |-> s.levels, traps |-> s.traps,
                  err |-> s.err, trap |-> s.trap, ret |-> s.ret]
    /\ ops' = ops + 1
    /\ UNCHANGED listeners

IsProxy(n) == n \in DOMAIN nodes /\ nodes[n].proxy /\ roots[nodes[n].root].kind = "proxy"
IsWrapper(n) == n \in DOMAIN nodes /\ roots[nodes[n].root].kind = "primitive"

\* proxy.set(lit)
Set(n, lit) ==
    /\ ops < MaxOps /\ IsProxy(n)
    /\ Commit(set(Alloc(Cur, lit).s, n, Alloc(Cur, lit).x), "set", n, NoKey, lit)

RECURSIVE IsAncestorOrSelf(_, _, _)
IsAncestorOrSelf(ns, a, n) == n = a \/ (ns[n].parent # 0 /\ IsAncestorOrSelf(ns, a, ns[n].parent))

\* the cell at address a is x or is reached from x in at most d steps
RECURSIVE Reaches(_, _, _, _)
Reaches(h, x, a, d) ==
    /\ x.t = "ref"
    /\ \/ x.v = a
       \/ d > 0 /\ \E k \in DOMAIN h[x.v].f : Reaches(h, h[x.v].f[k], a, d - 1)

\* proxy.set(other), other an observable proxy of another tree whose value
\* does not contain an object it is stored under (the diff of updateNodes does
\* not end on a cycle)
SetObservable(n, m) ==
    /\ ops < MaxOps /\ IsProxy(n) /\ IsProxy(m)
    /\ nodes[n].root # nodes[m].root
    /\ \A a \in DOMAIN nodes :
         (a # n /\ IsAncestorOrSelf(nodes, a, n) /\ getNodeValue(Cur, a).t = "ref")
         => ~Reaches(heap, getNodeValue(Cur, m), getNodeValue(Cur, a).v, Len(heap))
    /\ Commit(set(Cur, n, ObsV(m)), "setObservable", n, NoKey, LP(m))

\* proxy.assign(lit)
Assign(n, lit) ==
    /\ ops < MaxOps /\ IsProxy(n)
    /\ Commit(assign(Alloc(Cur, lit).s, n, Alloc(Cur, lit).x), "assign", n, NoKey, lit)

\* proxy.delete(key), or proxy.delete() when key = NoKey
Delete(n, key) ==
    /\ ops < MaxOps /\ IsProxy(n)
    /\ key = NoKey => nodes[n].parent # 0
    /\ Commit(deleteFn(Cur, n, key), "delete", n, key, LU)

\* proxy[prop] = lit
ProxyAssign(n, prop, lit) ==
    /\ ops < MaxOps /\ IsProxy(n)
    /\ Commit(proxySet(Alloc(Cur, lit).s, n, prop, Alloc(Cur, lit).x), "proxySet", n, prop, lit)

\* delete proxy[prop]
ProxyDelete(n, prop) ==
    /\ ops < MaxOps /\ IsProxy(n)
    /\ Commit(deleteProperty(Cur, n, prop), "deleteProperty", n, prop, LU)

\* proxy[p]
ProxyGet(n, p) ==
    /\ ops < MaxOps /\ IsProxy(n)
    /\ p = "length" => isArray(heap, getNodeValue(Cur, n))
    /\ Commit(proxyGet(Cur, n, p), "proxyGet", n, p, LU)

\* proxy.get()
Get(n) ==
    /\ ops < MaxOps /\ IsProxy(n)
    /\ Commit(get(Cur, n), "get", n, NoKey, LU)

\* proxy.push(lit), proxy.unshift(lit), proxy.fill(lit), proxy.splice(lit),
\* proxy.copyWithin(lit), proxy.pop(), proxy.shift(), proxy.reverse(),
\* proxy.sort()
Mutate(n, prop, lit) ==
    /\ ops < MaxOps /\ IsProxy(n)
    /\ isArray(heap, getNodeValue(Cur, n))
    /\ prop \in {"push", "unshift"} => heap[getNodeValue(Cur, n).v].len < Len(IdxKeys)
    /\ prop \in {"splice", "copyWithin"} => lit.t = "prim"
    /\ Commit(collectionSetter(Alloc(Cur, lit).s, n, getNodeValue(Cur, n), prop, Alloc(Cur, lit).x),
              prop, n, NoKey, lit)

\* wrapper.set(v)
PrimitiveSet(n, v) ==
    /\ ops < MaxOps /\ IsWrapper(n)
    /\ Commit(primitiveSet(Cur, n, Prim(v)), "primitiveSet", n, NoKey, LP(v))

PrimitivePeek(n) ==
    /\ ops < MaxOps /\ IsWrapper(n)
    /\ Commit(primitivePeek(Cur, n), "primitivePeek", n, NoKey, LU)

PrimitiveGet(n) ==
    /\ ops < MaxOps /\ IsWrapper(n)
    /\ Commit(primitiveGet(Cur, n), "primitiveGet", n, NoKey, LU)

\* wrapper.set(f) with an updater function f
PrimitiveUpdate(n, k) ==
    /\ ops < MaxOps /\ IsWrapper(n)
    /\ Commit(primitiveSet(Cur, n, [t |-> "fn", v |-> k]), "primitiveSet", n, NoKey, LFn(k))

Other(op, n) ==
    /\ ops < MaxOps
    /\ ops' = ops + 1
    /\ fired' = <<>>
    /\ invoked' = <<>>
    /\ result' = [op |-> op, node |-> n, key |-> NoKey, arg |-> LU, levels |-> <<>>, traps |-> <<>>,
                  err |-> "", trap |-> TRUE, ret |-> Undef]

\* root.locked = b
Lock(r, b) ==
    /\ roots[r].locked # b
    /\ roots' = [roots EXCEPT ![r].locked = b]
    /\ Other("lock", r)
    /\ UNCHANGED <<heap, nodes, listeners, tracked, inSet, inAssign, numInBatch, batch>>

\* the root node of root r
RootNode(s, r) == CHOOSE n \in DOMAIN s.nodes : s.nodes[n].root = r /\ s.nodes[n].parent = 0

\* persistObservable.ts lines 76-140: the options are recorded and the change
\* listener is registered on the observable
persistObservable(s, r, local, remote) ==
    onChangeDo([s EXCEPT !.roots[r].persist = [local |-> local, remote |-> remote,
                                               tempDisableSaveRemote |-> FALSE]],
               RootNode(s, r), "deep", "persist")

\* lines 71-73, s3 the state after cb()
onChangeRemoteEnd(s3, r) ==
    IF s3.err # "" THEN s3
    ELSE [endBatch(s3) EXCEPT !.roots[r].persist.tempDisableSaveRemote = FALSE]

\* lines 64-74, with cb = () => obs.set(value), the change received from the
\* remote store
onChangeRemote(s, r, value) ==
    onChangeRemoteEnd(set(beginBatch([s EXCEPT !.roots[r].persist.tempDisableSaveRemote = TRUE]),
                          RootNode(s, r), value),
                      r)

\* the remote store reports a change of the observable of root r
OnChangeRemote(r, lit) ==
    /\ ops < MaxOps
    /\ roots[r].persist.remote # "none"
    /\ Commit(onChangeRemote(Alloc(Cur, lit).s, r, Alloc(Cur, lit).x), "onChangeRemote", RootNode(Cur, r), NoKey, lit)

\* proxy.onChange(cb, track) with a callback that writes through a proxy
OnChangeDo(n, track, cb) ==
    /\ n \in DOMAIN nodes /\ (nodes[n].proxy \/ IsWrapper(n))
    /\ listeners' = onChangeDo(Cur, n, track, cb).listeners
    /\ Other("onChange", n)
    /\ UNCHANGED <<roots, heap, nodes, tracked, inSet, inAssign, numInBatch, batch>>

\* proxy.onChange(cb, track)
OnChange(n, track) ==
    /\ n \in DOMAIN nodes /\ (nodes[n].proxy \/ IsWrapper(n))
    /\ listeners' = onChange(Cur, n, track).listeners
    /\ Other("onChange", n)
    /\ UNCHANGED <<roots, heap, nodes, tracked, inSet, inAssign, numInBatch, batch>>

BeginBatch ==
    /\ numInBatch' = numInBatch + 1
    /\ Other("beginBatch", 0)
    /\ UNCHANGED <<roots, heap, nodes, listeners, tracked, inSet, inAssign, batch>>

EndBatch ==
    /\ ops < MaxOps /\ numInBatch > 0
    /\ Commit(endBatch(Cur), "endBatch", 0, NoKey, LU)

(***************************************************************************)
(* observable.ts: observable(value, safe), lines 494-528                   *)
(***************************************************************************)
Empty ==
    [roots |-> <<>>, heap |-> <<>>, nodes |-> <<>>, listeners |-> <<>>, tracked |-> {},
     inSet |-> FALSE, inAssign |-> FALSE, numInBatch |-> 0,
     batch |-> <<>>, fired |-> <<>>, invoked |-> <<>>, levels |-> <<>>, traps |-> <<>>,
     err |-> "", trap |-> TRUE, ret |-> Undef]

isActualPrimitive(x) == x.t = "prim"

\* safe is "true", "false" or "undefined"
\* A promise given to observable: its state ("pending", "fulfilled" or
\* "rejected") and the reactions registered on it, in order; each reaction
\* runs when the promise reaches the state it is registered for.
NoPromise == [state |-> "none", handlers |-> <<>>]

\* persistObservable.ts: the options and the LocalState of a persisted
\* observable, kept with its root; remote is "none", "readonly" or
\* "readwrite" (persistOptions.remote and its readonly flag)
NoPersist == [local |-> FALSE, remote |-> "none", tempDisableSaveRemote |-> FALSE]

\* lines 516-521: promise.catch(error => proxy.set({error})) and then
\* promise.then(value => proxy.set(value)), both on the promise itself
bothHandlers ==
    <<[on |-> {"rejected"}, do |-> "setError"], [on |-> {"fulfilled", "rejected"}, do |-> "setValue"]>>
promiseHandlers ==
    <<[on |-> {"rejected"}, do |-> "setError"], [on |-> {"fulfilled"}, do |-> "setValue"]>>

\* lines 507-527 for a promise: the root starts undefined
observablePromise(s, safe) ==
    LET wrapper == isActualPrimitive(Undef)
        obs == [val |-> Undef,
                safeMode |-> IF safe = "true" THEN 2 ELSE IF safe = "false" THEN 0 ELSE 1,
                locked |-> FALSE,
                kind |-> IF wrapper THEN "primitive" ELSE "proxy",
                activate |-> "none",
                promise |-> IF wrapper THEN [state |-> "pending", handlers |-> <<>>]
                            ELSE [state |-> "pending", handlers |-> promiseHandlers],
                persist |-> NoPersist]
        node == [root |-> Len(s.roots) + 1, parent |-> 0, key |-> NoKey,
                 children |-> EmptyF, proxy |-> ~wrapper]
    IN [s EXCEPT !.roots = Append(@, obs), !.nodes = Append(@, node)]


\* lines 517-518 and 520-521: the body of a reaction, called with the
\* settled value x; the call is logged in invoked (fn -2: the catch
\* reaction, fn -3: the then reaction)
setError(a, r) == set(a.s, RootNode(a.s, r), a.x)
runHandler(s, r, h, x) ==
    IF h.do = "setError"
    THEN setError(Alloc([s EXCEPT !.invoked = Append(@, [fn |-> -2, arg |-> Snap(s, x)])],
                        LObj([error |-> Snap(s, x)])), r)
    ELSE set([s EXCEPT !.invoked = Append(@, [fn |-> -3, arg |-> Snap(s, x)])], RootNode(s, r), x)

\* the promise of root r settles: its reactions for that outcome run in the
\* order they were registered; a reaction that throws does not stop the next
RECURSIVE settle(_, _, _, _, _)
settle(s, r, outcome, x, i) ==
    IF i > Len(s.roots[r].promise.handlers) THEN s
    ELSE IF outcome \in s.roots[r].promise.handlers[i].on
    THEN settle(runHandler(s, r, s.roots[r].promise.handlers[i], x), r, outcome, x, i + 1)
    ELSE settle(s, r, outcome, x, i + 1)

\* the promise given to observable settles with the value lit
Settle(r, outcome, lit) ==
    /\ ops < MaxOps /\ r \in DOMAIN roots /\ roots[r].promise.state = "pending"
    /\ Commit(settle(Alloc([Cur EXCEPT !.roots[r].promise.state = outcome], lit).s, r, outcome,
                     Alloc(Cur, lit).x, 1),
              outcome, RootNode(Cur, r), NoKey, lit)

observable(s, lit, safe) ==
    LET a == Alloc(s, lit)
        wrapper == isActualPrimitive(a.x)
        obs == [val |-> a.x,
                safeMode |-> IF safe = "true" THEN 2 ELSE IF safe = "false" THEN 0 ELSE 1,
                locked |-> FALSE,
                kind |-> IF wrapper THEN "primitive" ELSE "proxy",
                activate |-> "none",
                promise |-> NoPromise,
                persist |-> NoPersist]
        node == [root |-> Len(s.roots) + 1, parent |-> 0, key |-> NoKey,
                 children |-> EmptyF, proxy |-> ~wrapper]
    IN [a.s EXCEPT !.roots = Append(@, obs), !.nodes = Append(@, node)]

Start(s) ==
    /\ roots = s.roots
    /\ heap = s.heap
    /\ nodes = s.nodes
    /\ tracked = {}
    /\ listeners = s.listeners
    /\ inSet = FALSE
    /\ inAssign = FALSE
    /\ numInBatch = s.numInBatch
    /\ batch = <<>>
    /\ fired = <<>>
    /\ invoked = <<>>
    /\ result = [op |-> "observable", node |-> 1, key |-> NoKey, arg |-> LU, levels |-> <<>>, traps |-> <<>>,
                 err |-> "", trap |-> TRUE, ret |-> Undef]
    /\ ops = 0

SafeArgs == {"true", "false", "undefined"}

\* root.activate = hook, set by the code that created the observable
withActivate(s, r, hook) == [s EXCEPT !.roots[r].activate = hook]

Elem(i) == LObj([id |-> LP(i)])
ObjA(x) == LObj([a |-> x])
ObjAB(x, y) == LObj([a |-> x, b |-> y])

\* the proxies of the properties gets[i] = <<node, property>>, taken in order
RECURSIVE proxiesOf(_, _, _)
proxiesOf(s, gets, i) ==
    IF i > Len(gets) THEN s
    ELSE proxiesOf(proxyGet(s, gets[i][1], gets[i][2]), gets, i + 1)

\* the listeners ls[i] = <<node, track>>, registered in order
RECURSIVE listenersOf(_, _, _)
listenersOf(s, ls, i) ==
    IF i > Len(ls) THEN s
    ELSE listenersOf(onChange(s, ls[i][1], ls[i][2]), ls, i + 1)

\* what a reader sees at a root, and at a node
ValueAt(s, n) == Snapshot(s.heap, getNodeValue(s, n), MaxDepth)
RootValueAt(s, r) == Snapshot(s.heap, s.roots[r].val, MaxDepth)
RootValue(r) == RootValueAt(Cur, r)
NodeValue(n) == ValueAt(Cur, n)
Calls(l) == {i \in DOMAIN fired : fired[i].l = l}

(***************************************************************************)
(* Writes against a lockable tree and a lockable primitive wrapper.        *)
(***************************************************************************)
\* observable({a: 1, b: [1, 2]}, safe), the proxies of .a and .b taken, and
\* observable(1)
InitLocked ==
    \E safe \in SafeArgs :
        Start(observable(
            proxiesOf(observable(Empty, ObjAB(LP(1), LArr(<<LP(1), LP(2)>>)), safe),
                      <<<<1, "a">>, <<1, "b">>>>, 1),
            LP(1), "undefined"))

NextLocked ==
    \/ \E n \in DOMAIN nodes, lit \in {LP(2), ObjA(LP(2))} : Set(n, lit)
    \/ \E n \in DOMAIN nodes : Assign(n, ObjAB(LP(2), LP(2)))
    \/ \E n \in DOMAIN nodes, key \in {NoKey, "a"} : Delete(n, key)
    \/ \E n \in DOMAIN nodes, prop \in {"push", "reverse"} : Mutate(n, prop, LP(3))
    \/ \E n \in DOMAIN nodes : PrimitiveSet(n, 2)
    \/ \E r \in DOMAIN roots, b \in BOOLEAN : Lock(r, b)
    \/ \E n \in DOMAIN nodes : OnChange(n, "deep")

SpecLocked == InitLocked /\ [][NextLocked]_vars

WriteOps == {"set", "assign", "delete", "push", "reverse", "primitiveSet"}

\* C1: a write entry point (set, assign, delete, an array mutator, the
\* primitive wrapper's set) called on a tree whose root is locked fails with
\* the locked error, leaves the root's stored value structurally unchanged and
\* raises no notification.
C1_LockedRejectionAtomic ==
    [][(/\ ops' = ops + 1
        /\ result'.op \in WriteOps
        /\ roots[nodes[result'.node].root].locked)
       => /\ result'.err = "Locked"
          /\ RootValueAt(Cur', nodes[result'.node].root) = RootValue(nodes[result'.node].root)
          /\ fired' = <<>>]_vars

\* a multi-key assign has been rejected on a locked tree
C1_Witness ==
    /\ result.op = "assign"
    /\ result.err = "Locked"
    /\ roots[nodes[result.node].root].locked

(***************************************************************************)
(* Writes inside one open batch.                                           *)
(***************************************************************************)
\* observable({a: 1, b: {a: 1}}), the proxies of .a, .b and .b.a taken, a deep
\* listener on each of the four nodes
BatchTree ==
    listenersOf(proxiesOf(observable(Empty, ObjAB(LP(1), ObjA(LP(1))), "undefined"),
                          <<<<1, "a">>, <<1, "b">>, <<3, "a">>>>, 1),
                <<<<1, "deep">>, <<2, "deep">>, <<3, "deep">>, <<4, "deep">>>>, 1)

\* beginBatch() has been called
InitBatch == Start(beginBatch(BatchTree))

NextBatch ==
    \/ \E n \in DOMAIN nodes, lit \in {LP(2), ObjA(LP(2)), LObj([b |-> LP(2)])} : Set(n, lit)
    \/ \E n \in DOMAIN nodes : Assign(n, ObjAB(LP(2), LP(2)))
    \/ \E n \in DOMAIN nodes : Delete(n, NoKey)
    \/ (numInBatch > 0 /\ BeginBatch)
    \/ EndBatch

SpecBatch == InitBatch /\ [][NextBatch]_vars

\* a node's value when the batch was opened
BatchStartValue(n) == Snapshot(BatchTree.heap, getNodeValue(BatchTree, n), MaxDepth)

\* C2: when the outermost endBatch closes a batch of writes, every listener is
\* invoked at most once, with previousValue the value of its node before the
\* first write of the batch and newValue the value after the last write; no
\* listener is invoked while the batch depth is above zero.
C2_BatchOncePerListener ==
    /\ numInBatch > 0 => fired = <<>>
    /\ (result.op = "endBatch" /\ numInBatch = 0)
       => \A l \in DOMAIN listeners :
            /\ Cardinality(Calls(l)) <= 1
            /\ \A i \in Calls(l) :
                 /\ fired[i].prev = BatchStartValue(listeners[l].node)
                 /\ fired[i].value = NodeValue(listeners[l].node)

\* the outermost endBatch has dispatched a deferred notification
C2_Witness ==
    /\ result.op = "endBatch"
    /\ numInBatch = 0
    /\ fired # <<>>

(***************************************************************************)
(* Arrays of elements that carry an id.                                    *)
(***************************************************************************)
\* observable({a: [{id: 1}, {id: 2}]}), the proxies of .a, .a[0], .a[1] taken
InitArray ==
    Start(proxiesOf(observable(Empty, ObjA(LArr(<<Elem(1), Elem(2)>>)), "undefined"),
                    <<<<1, "a">>, <<2, "0">>, <<2, "1">>>>, 1))

ArrayArgs ==
    {LArr(<<Elem(2), Elem(1)>>), LArr(<<Elem(1), Elem(2)>>), LArr(<<Elem(2), Elem(1), Elem(3)>>)}

NextArray ==
    \/ \E n \in DOMAIN nodes, lit \in ArrayArgs : Set(n, lit)
    \/ \E n \in DOMAIN nodes, prop \in {"push", "reverse"} : Mutate(n, prop, Elem(3))
    \/ \E n \in DOMAIN nodes : OnChange(n, "deep")

SpecArray == InitArray /\ [][NextArray]_vars

ElemsOf(h, x) == {Snapshot(h, Lookup(h, x, IdxKey(i)), 2) : i \in 0..(LengthOf(h, x) - 1)}
LitElems(lit) == {lit.f[k] : k \in DOMAIN lit.f}
HasId(e) == e.t = "obj" /\ \E i \in DOMAIN IdFields : IdFields[i] \in DOMAIN e.f

\* lit is the array prev with the same elements in some order
IsReordering(h, prev, lit) ==
    /\ isArray(h, prev)
    /\ lit.t = "arr"
    /\ lit.v = LengthOf(h, prev)
    /\ Cardinality(DOMAIN lit.f) = lit.v
    /\ Cardinality(LitElems(lit)) = lit.v
    /\ LitElems(lit) = ElemsOf(h, prev)
    /\ \A e \in LitElems(lit) : HasId(e)

PrevKey(h, prev, e) == CHOOSE k \in DOMAIN h[prev.v].f : Snapshot(h, h[prev.v].f[k], 2) = e
NewKey(lit, e) == CHOOSE k \in DOMAIN lit.f : lit.f[k] = e

\* set(lit) on node n, lit a same-length reordering of the array at n
ReorderStep ==
    /\ ops' = ops + 1
    /\ result'.op = "set"
    /\ result'.err = ""
    /\ IsReordering(heap, getNodeValue(Cur, result'.node), result'.arg)

InitReadWrite ==
    Start(proxiesOf(observable(proxiesOf(observable(Empty, ObjAB(LP(1), LObj(EmptyF)), "undefined"),
                                         <<<<1, "b">>>>, 1),
                               ObjA(ObjA(LP(1))), "undefined"),
                    <<<<3, "a">>, <<4, "a">>>>, 1))

NextReadWrite ==
    \/ \E n \in DOMAIN nodes, lit \in {LP(2), LP(3), ObjA(LP(2))} : Set(n, lit)
    \/ \E n, m \in DOMAIN nodes :
         nodes[n].root = 1 /\ nodes[m].root = 2 /\ SetObservable(n, m)
    \/ \E n \in DOMAIN nodes, p \in {"a", "value"} : ProxyGet(n, p)
    \/ \E n \in DOMAIN nodes : Get(n)

SpecReadWrite == InitReadWrite /\ [][NextReadWrite]_vars

\* C4: after set(X) has returned on a node of an unlocked tree, X a plain
\* value, get() on the same node returns X (a primitive) or a value
\* structurally equal to X (an object or array).
C4_SetGetRoundTrip ==
    (result.op = "set" /\ result.err = "")
    => Snapshot(heap, get(Cur, result.node).ret, MaxDepth) = result.arg

\* set has returned on a node whose key is 'value'
C4_Witness ==
    /\ result.op = "set"
    /\ result.err = ""
    /\ nodes[result.node].key = "value"

\* C9: reading through a proxy a property whose value is a primitive (not an
\* array's length) returns the raw primitive and records a tracked read of the
\* child node.
C9_PrimitiveReadRawTracked ==
    [][(/\ ops' = ops + 1
        /\ result'.op = "proxyGet"
        /\ result'.key # "length"
        /\ isPrimitive(Lookup(heap, getNodeValue(Cur, result'.node), result'.key)))
       => /\ result'.ret = Lookup(heap, getNodeValue(Cur, result'.node), result'.key)
          /\ result'.key \in DOMAIN nodes'[result'.node].children
          /\ \E e \in tracked' : e.node = nodes'[result'.node].children[result'.key]]_vars

\* a property holding a primitive has been read through the proxy
C9_Witness ==
    /\ result.op = "proxyGet"
    /\ result.key = "a"
    /\ isPrimitive(Lookup(heap, getNodeValue(Cur, result.node), result.key))

\* C10: after set was given another observable as the new value the two
\* graphs are not aliased: a write inside one tree does not change the value
\* read from another tree.
C10_NoAliasing ==
    [][(ops' = ops + 1 /\ result'.op \in {"set", "setObservable"})
       => \A r \in DOMAIN roots :
            r # nodes[result'.node].root => RootValueAt(Cur', r) = RootValue(r)]_vars

\* set has stored the value of an observable of another tree
C10_Witness ==
    /\ result.op = "setObservable"
    /\ result.err = ""
    /\ nodes[result.node].root # nodes[result.arg.v].root
    /\ NodeValue(result.node) = NodeValue(result.arg.v)

(***************************************************************************)
(* Writes to one tree with listeners on every node.                        *)
(***************************************************************************)
\* observable({a: 1, b: {a: 1}}), the proxies of .a, .b and .b.a taken, a deep
\* listener on each of the four nodes and a shallow one on .b
InitListeners ==
    Start(listenersOf(BatchTree, <<<<3, "shallow">>>>, 1))

NextListeners ==
    \/ \E n \in DOMAIN nodes, lit \in {LP(2), ObjAB(LP(1), ObjA(LP(2)))} : Set(n, lit)
    \/ \E n \in DOMAIN nodes : Assign(n, ObjA(LP(2)))
    \/ \E n \in DOMAIN nodes, key \in {NoKey, "a"} : Delete(n, key)

SpecListeners == InitListeners /\ [][NextListeners]_vars

\* the nodes an operation writes
WrittenNodes(r) ==
    IF r.op = "assign"
    THEN {nodes[r.node].children[k] : k \in DOMAIN r.arg.f \cap DOMAIN nodes[r.node].children}
    ELSE IF r.op = "delete" /\ r.key \in DOMAIN nodes[r.node].children
    THEN {nodes[r.node].children[r.key]}
    ELSE {r.node}

IsContainer(x) == x.t \in {"obj", "arr"}

InitAssign ==
    \E open \in BOOLEAN :
        LET tree == listenersOf(proxiesOf(observable(Empty, ObjAB(LP(1), LP(1)), "undefined"),
                                          <<<<1, "a">>>>, 1),
                                <<<<1, "shallow">>, <<1, "deep">>, <<2, "deep">>>>, 1)
        IN Start(IF open THEN beginBatch(tree) ELSE tree)

AssignArgs == {ObjAB(LP(1), LP(1)), ObjAB(LP(2), LP(2)), ObjAB(LP(1), ObjA(LP(2)))}

NextAssign ==
    \/ \E n \in DOMAIN nodes, lit \in AssignArgs : Assign(n, lit)
    \/ \E n \in DOMAIN nodes, lit \in {LP(2), ObjA(LP(2))} : Set(n, lit)
    \/ BeginBatch
    \/ EndBatch

SpecAssign == InitAssign /\ [][NextAssign]_vars

\* assign(lit) returns normally on a node that holds an object
AssignStep ==
    /\ ops' = ops + 1
    /\ result'.op = "assign"
    /\ result'.err = ""
    /\ ~inSet /\ ~inAssign
    /\ isObject(heap, getNodeValue(Cur, result'.node))

AssignChanges(k) ==
    \/ result'.arg.f[k].t # "prim"
    \/ k \notin DOMAIN NodeValue(result'.node).f
    \/ NodeValue(result'.node).f[k] # result'.arg.f[k]

InitSafe ==
    \E safe \in SafeArgs :
        LET tree == listenersOf(proxiesOf(observable(Empty, ObjAB(LP(1), ObjA(LP(1))), safe),
                                          <<<<1, "b">>>>, 1),
                                <<<<1, "deep">>, <<2, "deep">>>>, 1)
        IN Start(tree)

NextSafe ==
    \/ \E n \in DOMAIN nodes, prop \in {"a", "b"}, lit \in {LP(2), ObjA(LP(2))} : ProxyAssign(n, prop, lit)
    \/ \E n \in DOMAIN nodes, prop \in {"a", "b"} : ProxyDelete(n, prop)
    \/ \E n \in DOMAIN nodes, lit \in {LP(2), ObjAB(LP(1), LP(1))} : Set(n, lit)

SpecSafe == InitSafe /\ [][NextSafe]_vars

\* a trap called on the proxy of a node that holds an object, on an unlocked
\* tree, while no set or assign is in progress
TrapStep(op) ==
    /\ ops' = ops + 1
    /\ result'.op = op
    /\ ~inSet /\ ~inAssign
    /\ ~roots[nodes[result'.node].root].locked
    /\ isObject(heap, getNodeValue(Cur, result'.node))

SafeModeOf(n) == roots[nodes[n].root].safeMode
ExistingAt(s, n, prop) == Snapshot(s.heap, Lookup(s.heap, getNodeValue(s, n), prop), MaxDepth)
Existing(n, prop) == Lookup(heap, getNodeValue(Cur, n), prop)

\* the trap returns false and nothing is written or notified
Refused ==
    /\ ~result'.trap
    /\ RootValueAt(Cur', nodes[result'.node].root) = RootValue(nodes[result'.node].root)
    /\ fired' = <<>>

C8_ProxyDeleteSafeMode ==
    [][TrapStep("deleteProperty")
       => IF SafeModeOf(result'.node) = 2 THEN Refused
          ELSE /\ result'.trap
               /\ result'.key \notin DOMAIN heap'[getNodeValue(Cur, result'.node).v].f]_vars

\* a delete through the proxy has been refused in default mode
C8_Witness ==
    /\ result.op = "deleteProperty"
    /\ ~result.trap
    /\ SafeModeOf(result.node) = 1

(***************************************************************************)
(* Updater functions given to set, on a lockable tree and a lockable       *)
(* primitive wrapper.                                                      *)
(***************************************************************************)
\* observable({a: 1, b: 1}) with the proxy of .a taken, and observable(1)
InitUpdater ==
    Start(observable(proxiesOf(observable(Empty, ObjAB(LP(1), LP(1)), "undefined"), <<<<1, "a">>>>, 1),
                     LP(1), "undefined"))

NextUpdater ==
    \/ \E n \in DOMAIN nodes, lit \in {LFn(0), LFn(2), LP(2)} : Set(n, lit)
    \/ \E n \in DOMAIN nodes, lit \in {ObjA(LP(2)), ObjA(LP(3))} : Assign(n, lit)
    \/ \E n \in DOMAIN nodes, k \in {0, 2, 3} : PrimitiveUpdate(n, k)
    \/ \E r \in DOMAIN roots, b \in BOOLEAN : Lock(r, b)
    \/ \E n \in DOMAIN nodes : OnChange(n, "deep")

SpecUpdater == InitUpdater /\ [][NextUpdater]_vars

\* what the updater LFn(k) returns when called with prev
Returned(k, prev) == IF k = 0 THEN prev ELSE LP(k)

\* the step is a completed set(f) of an updater function f on node n
UpdateStep(n) ==
    /\ result'.op \in {"set", "primitiveSet"} /\ result'.node = n
    /\ result'.arg.t = "fn" /\ result'.err = ""

\* C11: a set with an updater function f calls f exactly once, with the value
\* stored just before the write, and stores what f returned; whatever came
\* before (assigns, rejected writes), the function itself is never stored.
C11_UpdaterCalledOnce ==
    [][\A n \in DOMAIN nodes :
          UpdateStep(n) =>
              /\ invoked' = <<[fn |-> result'.arg.v, arg |-> NodeValue(n)]>>
              /\ ValueAt(Cur', n) = Returned(result'.arg.v, NodeValue(n))
              /\ ValueAt(Cur', n).t # "fn"]_vars

\* a set of an updater function has completed after an assign was rejected
\* on the locked tree
C11_Witness ==
    /\ result.op = "set" /\ result.arg.t = "fn" /\ result.err = ""
    /\ inAssign /\ ~roots[1].locked

(***************************************************************************)
(* Reads of primitive wrappers whose roots carry an activate hook.         *)
(***************************************************************************)
\* observable(1) and observable(1), each given an activate hook
InitActivate ==
    \E h1 \in Hooks, h2 \in Hooks :
        Start(withActivate(withActivate(observable(observable(Empty, LP(1), "undefined"),
                                                   LP(1), "undefined"), 1, h1), 2, h2))

NextActivate ==
    \/ \E n \in DOMAIN nodes : PrimitivePeek(n)
    \/ \E n \in DOMAIN nodes : PrimitiveGet(n)
    \/ \E n \in DOMAIN nodes, v \in {2, 3} : PrimitiveSet(n, v)
    \/ \E n \in DOMAIN nodes : OnChange(n, "deep")

SpecActivate == InitActivate /\ [][NextActivate]_vars

\* the calls of the activate hook made by the last operation
ActivateCalls(log) == {i \in DOMAIN log : log[i].fn = -1}

\* C12: a peek or get of a primitive wrapper calls the root's activate hook
\* exactly once if the root still has one (the first read) and not at all
\* otherwise, reads made by the hook itself included, and leaves the root
\* without a hook.
C12_ActivateOnce ==
    [][\A n \in DOMAIN nodes :
          (result'.op \in {"primitivePeek", "primitiveGet"} /\ result'.node = n) =>
              /\ roots'[nodes[n].root].activate = "none"
              /\ Cardinality(ActivateCalls(invoked')) =
                     IF roots[nodes[n].root].activate # "none" THEN 1 ELSE 0]_vars

\* a first read has run a hook that itself read the wrapper
C12_Witness ==
    /\ result.op \in {"primitivePeek", "primitiveGet"}
    /\ Cardinality(ActivateCalls(invoked)) > 1
    /\ roots[nodes[result.node].root].activate = "none"

(***************************************************************************)
(* An observable created from a promise, next to an ordinary tree.         *)
(***************************************************************************)
\* observable({a: 1}) and observable(promise, safe)
InitPromise ==
    \E safe \in SafeArgs :
        Start(observablePromise(observable(Empty, ObjA(LP(1)), "undefined"), safe))

Pending(r) == roots[r].promise.state = "pending"

\* the caller reads at any time, and writes the tree of a promise only once
\* the promise has settled
NextPromise ==
    \/ \E r \in DOMAIN roots, lit \in {LU, LP(2), ObjA(LP(2))} : Settle(r, "fulfilled", lit)
    \/ \E r \in DOMAIN roots, e \in {2, 3} : Settle(r, "rejected", LP(e))
    \/ \E n \in DOMAIN nodes : Get(n)
    \/ \E n \in DOMAIN nodes, p \in {"a", "error"} : ProxyGet(n, p)
    \/ \E n \in DOMAIN nodes, lit \in {LP(3), ObjA(LP(3))} : ~Pending(nodes[n].root) /\ Set(n, lit)
    \/ \E r \in DOMAIN roots, b \in BOOLEAN : Lock(r, b)
    \/ \E n \in DOMAIN nodes, track \in {"deep", "shallow"} : OnChange(n, track)

SpecPromise == InitPromise /\ [][NextPromise]_vars

\* the reactions of a promise run by the last operation
HandlerCalls(log) == {i \in DOMAIN log : log[i].fn \in {-2, -3}}

\* C13: an observable created from a promise holds, and reads as, undefined
\* while the promise is pending, and nothing is set on it by then; when the
\* promise is fulfilled with v exactly one set(v) is made on the root, when
\* it is rejected with e exactly one set({error: e}) and no other; nothing
\* is set afterwards by the promise.
C13_PromiseSettlesOnce ==
    /\ [](\A r \in DOMAIN roots :
            Pending(r) => /\ roots[r].val = Undef
                          /\ (result.op = "get" /\ nodes[result.node].root = r) => result.ret = Undef)
    /\ [][\A r \in DOMAIN roots :
            /\ (Pending(r) /\ roots'[r].promise.state = "fulfilled") =>
                  /\ invoked' = <<[fn |-> -3, arg |-> result'.arg]>>
                  /\ result'.err = "" => RootValueAt(Cur', r) = result'.arg
            /\ (Pending(r) /\ roots'[r].promise.state = "rejected") =>
                  /\ invoked' = <<[fn |-> -2, arg |-> result'.arg]>>
                  /\ result'.err = "" => RootValueAt(Cur', r) = LObj([error |-> result'.arg])
            /\ ~Pending(r) => roots'[r].promise = roots[r].promise]_vars
    /\ [][(\A r \in DOMAIN roots : roots'[r].promise = roots[r].promise) => HandlerCalls(invoked') = {}]_vars

\* a pending promise was rejected and the root now holds {error: e}
C13_Witness ==
    \E r \in DOMAIN roots :
        /\ roots[r].promise.state = "rejected" /\ result.op = "rejected"
        /\ roots[r].val # Undef /\ Len(invoked) = 1

(***************************************************************************)
(* The level given to notify by writes of primitives, objects and arrays.  *)
(***************************************************************************)
\* observable({a: {a: 1}, b: [1, 2]}, false) with the proxies of .a and .b
\* taken
InitLevel ==
    Start(proxiesOf(observable(Empty, ObjAB(ObjA(LP(1)), LArr(<<LP(1), LP(2)>>)), "false"),
                    <<<<1, "a">>, <<1, "b">>>>, 1))

LevelArgs ==
    {LU, LP(1), ObjA(LP(1)), LArr(<<LP(1), LP(2)>>), LArr(<<LP(2), LP(1)>>), LArr(<<LP(1)>>)}

NextLevel ==
    \/ \E n \in DOMAIN nodes, lit \in LevelArgs : Set(n, lit)
    \/ \E n \in DOMAIN nodes, key \in {NoKey, "a"} : Delete(n, key)
    \/ \E n \in DOMAIN nodes : OnChange(n, "shallow")

SpecLevel == InitLevel /\ [][NextLevel]_vars

\* the step is a completed set or delete
LevelStep == result'.op \in {"set", "delete"} /\ result'.err = ""

\* the value, before the step, of the location the step writes
PrevOfStep ==
    IF result'.key = NoKey THEN NodeValue(result'.node)
    ELSE IF result'.key \in DOMAIN NodeValue(result'.node).f THEN NodeValue(result'.node).f[result'.key]
    ELSE LU

\* setKey calls notify unless the value written is the primitive already there
Notifies == ~(result'.op = "set" /\ result'.arg.t = "prim" /\ result'.arg = PrevOfStep)

\* the new value is an array as long as the previous one, holding at every
\* index the very primitive the previous one holds there
SameArray(new, prev) ==
    /\ new.t = "arr" /\ prev.t = "arr" /\ new.v = prev.v
    /\ \A k \in DOMAIN new.f :
          k \in DOMAIN prev.f /\ new.f[k].t \in {"prim", "undef"} /\ new.f[k] = prev.f[k]

InitNested ==
    \E safe \in SafeArgs :
        Start(proxiesOf(observable(Empty, ObjAB(LP(1), LP(1)), safe), <<<<1, "b">>>>, 1))

\* the writes go to .b; the updaters LFn(4), LFn(5) and the listeners'
\* callbacks write .a
NextNested ==
    \/ \E lit \in {LFn(4), LFn(5), LP(2), LP(3)} : Set(2, lit)
    \/ \E n \in DOMAIN nodes, cb \in {"assign", "delete"} : OnChangeDo(n, "deep", cb)
    \/ \E prop \in {"a", "b"} : ProxyAssign(1, prop, LP(2))
    \/ ProxyDelete(1, "a")
    \/ BeginBatch
    \/ EndBatch

SpecNested == InitNested /\ [][NextNested]_vars

\* what the traps return for o.a = 2 and for delete o.a when no write is in
\* progress, .a holding a primitive or nothing
AssignAllowed == roots[1].safeMode # 2
DeleteAllowed == roots[1].safeMode = 0

\* the bodies run by the step, in order: the updater's, then the listeners'
CallbacksOfStep ==
    (IF result'.arg.t = "fn" /\ result'.arg.v = 4 THEN <<"assign">>
     ELSE IF result'.arg.t = "fn" /\ result'.arg.v = 5 THEN <<"delete">>
     ELSE <<>>) \o [i \in DOMAIN fired' |-> listeners[fired'[i].l].cb]

\* C15: a proxy assignment or delete made by an updater given to set, or by a
\* listener dispatched when the batch of a write closes, passes the safe-mode
\* checks of an assignment made while no write is in progress, and when
\* allowed it is applied to the stored value.
C15_NestedWritesChecked ==
    [][(result'.op = "set" /\ result'.err = "" /\ result'.traps # <<>>) =>
          /\ result'.traps = [i \in DOMAIN CallbacksOfStep |->
                                IF CallbacksOfStep[i] = "delete" THEN DeleteAllowed ELSE AssignAllowed]
          /\ (result'.arg.t = "fn" /\ result'.arg.v = 4 /\ fired' = <<>> /\ AssignAllowed)
                => ValueAt(Cur', 1).f["a"] = LP(2)
          /\ (result'.arg.t = "fn" /\ result'.arg.v = 5 /\ fired' = <<>> /\ DeleteAllowed)
                => "a" \notin DOMAIN ValueAt(Cur', 1).f]_vars

\* an updater assigned .a in the strictest safe mode and the trap accepted it
C15_Witness ==
    /\ result.op = "set" /\ result.arg = LFn(4) /\ result.err = ""
    /\ roots[1].safeMode = 2 /\ result.traps = <<TRUE>>

(***************************************************************************)
(* Containers replaced by containers with fewer keys.                      *)
(***************************************************************************)
\* observable({a: {a: 1, b: 1}, b: [1, 2]}, false) with the proxies of .a,
\* .b, .a.b and .b[1] taken
InitRemoval ==
    Start(proxiesOf(observable(Empty, ObjAB(ObjAB(LP(1), LP(1)), LArr(<<LP(1), LP(2)>>)), "false"),
                    <<<<1, "a">>, <<1, "b">>, <<2, "b">>, <<3, "1">>>>, 1))

RemovalArgs == {ObjA(LP(1)), ObjA(ObjA(LP(1))), LArr(<<LP(1)>>), LArr(<<>>), LP(2)}

NextRemoval ==
    \/ \E n \in DOMAIN nodes, lit \in RemovalArgs : Set(n, lit)
    \/ \E n \in DOMAIN nodes, track \in {"shallow", "deep"} : OnChange(n, track)

SpecRemoval == InitRemoval /\ [][NextRemoval]_vars

\* the keys of a plain value
KeysOfPlain(v) == IF v.t \in {"obj", "arr"} THEN DOMAIN v.f ELSE {}

\* the step is a completed set on node n, which held a container
ReplaceStep(n) ==
    /\ result'.op = "set" /\ result'.node = n /\ result'.err = ""
    /\ NodeValue(n).t \in {"obj", "arr"}

\* C16: when a write replaces a container, every listener of the child node
\* of a key that the previous value has and the new value lacks is called
\* with undefined as new value and the removed value as previous value,
\* whether the container is an object or an array.
C16_RemovedKeysNotified ==
    [][\A n \in DOMAIN nodes :
          ReplaceStep(n) =>
              \A k \in (KeysOfPlain(NodeValue(n)) \ KeysOfPlain(result'.arg)) \cap DOMAIN nodes[n].children :
                  \A l \in DOMAIN listeners :
                      listeners[l].node = nodes[n].children[k] =>
                          \E i \in Calls(l)' : /\ fired'[i].value = LU
                                               /\ fired'[i].prev = NodeValue(nodes[n].children[k])]_vars

\* an array was replaced by a shorter one while the child node of a removed
\* index had a listener, and that listener was not called
C16_Witness ==
    /\ result.op = "set" /\ result.err = "" /\ result.arg = LArr(<<LP(1)>>)
    /\ result.node = 3 /\ "1" \in DOMAIN nodes[3].children
    /\ \E l \in DOMAIN listeners : listeners[l].node = nodes[3].children["1"] /\ Calls(l) = {}
    /\ fired # <<>>

(***************************************************************************)
(* Deletes, by the delete verb and by the delete trap of the proxy.        *)
(***************************************************************************)
\* observable({a: {a: 1}, b: [1, 2]}, false) with the proxies of .a and .b
\* taken
InitDelete ==
    Start(proxiesOf(observable(Empty, ObjAB(ObjA(LP(1)), LArr(<<LP(1), LP(2)>>)), "false"),
                    <<<<1, "a">>, <<1, "b">>>>, 1))

NextDelete ==
    \/ \E n \in DOMAIN nodes, key \in {NoKey, "a", "b", "0"} : Delete(n, key)
    \/ \E n \in DOMAIN nodes, prop \in {"a", "0"} : ProxyDelete(n, prop)
    \/ \E n \in DOMAIN nodes, lit \in {LP(2), ObjA(LP(2))} : Set(n, lit)
    \/ \E n \in DOMAIN nodes, p \in {"a", "0"} : ProxyGet(n, p)
    \/ \E n \in DOMAIN nodes : OnChange(n, "deep")

SpecDelete == InitDelete /\ [][NextDelete]_vars

\* the step is a completed delete of key k under node p
DeleteStep(p, k) ==
    /\ result'.op \in {"delete", "deleteProperty"} /\ result'.err = "" /\ result'.trap
    /\ IF result'.key = NoKey
       THEN nodes[result'.node].parent = p /\ nodes[result'.node].key = k
       ELSE result'.node = p /\ result'.key = k

\* C17: once a delete of key k under node p has completed, p.children has no
\* entry for k and the value stored at p has no key k.
C17_DeleteRemovesChild ==
    [][\A p \in DOMAIN nodes, k \in Keys :
          DeleteStep(p, k) =>
              /\ k \notin DOMAIN nodes'[p].children
              /\ k \notin DOMAIN ValueAt(Cur', p).f]_vars

\* a delete has completed: the key is gone from the stored value and the
\* child node is still registered under it
C17_Witness ==
    /\ result.op \in {"delete", "deleteProperty"} /\ result.err = "" /\ result.key = "a"
    /\ "a" \notin DOMAIN NodeValue(result.node).f
    /\ "a" \in DOMAIN nodes[result.node].children

(***************************************************************************)
(* Which writes raise a notification.                                      *)
(***************************************************************************)
\* observable({a: 1, b: {a: 1}}) with the proxies of .a and .b taken and a
\* deep listener on .a, and observable({a: 1})
InitNotify ==
    Start(observable(listenersOf(proxiesOf(observable(Empty, ObjAB(LP(1), ObjA(LP(1))), "undefined"),
                                           <<<<1, "a">>, <<1, "b">>>>, 1),
                                 <<<<2, "deep">>>>, 1),
                     ObjA(LP(1)), "undefined"))

NotifyArgs == {LP(1), LP(2), ObjA(LP(1)), LArr(<<LP(1)>>), LFn(0), LFn(2)}

\* the second tree's proxy is given to set for nodes of the first
NextNotify ==
    \/ \E n \in DOMAIN nodes, lit \in NotifyArgs : nodes[n].root = 1 /\ Set(n, lit)
    \/ \E n \in DOMAIN nodes : nodes[n].root = 1 /\ SetObservable(n, 4)
    \/ \E n \in DOMAIN nodes, track \in {"deep", "shallow"} : nodes[n].root = 1 /\ OnChange(n, track)

SpecNotify == InitNotify /\ [][NextNotify]_vars

\* the step is a completed set on node n
SetStep(n) ==
    /\ result'.op \in {"set", "setObservable"} /\ result'.node = n /\ result'.err = ""

\* the value given to set is not a primitive, or differs from the one stored
GivenChanges(n) ==
    \/ result'.op = "setObservable"
    \/ result'.arg.t # "prim"
    \/ result'.arg # NodeValue(n)

InitShift ==
    Start(proxiesOf(observable(Empty, ObjAB(LArr(<<LP(1), LP(2)>>), LArr(<<Elem(1), Elem(2)>>)), "false"),
                    <<<<1, "a">>, <<1, "b">>, <<3, "0">>, <<3, "1">>, <<2, "0">>, <<2, "1">>>>, 1))

\* .a is given arrays of primitives and .b arrays of elements with an id
NextShift ==
    \/ \E lit \in {LArr(<<LP(2)>>), LArr(<<LP(2), LP(1), LP(3)>>)} : Set(2, lit)
    \/ \E lit \in {LArr(<<Elem(2)>>), LArr(<<Elem(3), Elem(1), Elem(2)>>)} : Set(3, lit)
    \/ \E prop \in {"shift", "pop", "push"} : Mutate(2, prop, LP(3))
    \/ \E prop \in {"shift", "pop", "push"} : Mutate(3, prop, Elem(3))
    \/ \E n \in DOMAIN nodes : OnChange(n, "deep")

SpecShift == InitShift /\ [][NextShift]_vars

\* the array stored at node n before and after the step
PrevArray(n) == getNodeValue(Cur, n)
NewArray(n) == getNodeValue(Cur', n)

\* the step is a completed write on node n that replaces an array by an array
\* of another length
LengthStep(n) ==
    /\ result'.node = n /\ result'.err = ""
    /\ result'.op \in {"set", "shift", "pop", "push"}
    /\ isArray(heap, PrevArray(n)) /\ isArray(heap', NewArray(n))
    /\ heap[PrevArray(n).v].len # heap'[NewArray(n).v].len

\* the indices at which the previous array holds an element with the id of x
SameIdBefore(n, x) ==
    {k \in DOMAIN heap[PrevArray(n).v].f :
        /\ IsIdx(k) /\ Lookup(heap', x, "id") # Undef
        /\ Lookup(heap, Lookup(heap, PrevArray(n), k), "id") = Lookup(heap', x, "id")}

\* the element x, now at key k, is new or is not the very element that carried
\* its id before (that was at its index, when no element carried its id)
ElementDiffers(n, k, x) ==
    IF SameIdBefore(n, x) # {}
    THEN \A j \in SameIdBefore(n, x) : Lookup(heap, PrevArray(n), j) # x
    ELSE Lookup(heap, PrevArray(n), k) # x

\* C19: when an array is replaced by an array of another length, a listener
\* of a child node of the array is called only if the child's element is new
\* or differs by identity from the element that carried the same id before
\* (from the element at its index when no id matches); the listeners of the
\* array node itself are called.
C19_ShiftedNotNotified ==
    [][\A n \in DOMAIN nodes :
          LengthStep(n) =>
              /\ \A l \in DOMAIN listeners :
                    (nodes'[listeners[l].node].parent = n /\ Calls(l)' # {}) =>
                        ElementDiffers(n, nodes'[listeners[l].node].key,
                                       Lookup(heap', NewArray(n), nodes'[listeners[l].node].key))
              /\ \A l \in DOMAIN listeners : listeners[l].node = n => Calls(l)' # {}]_vars

\* shift has moved the element with id 2 to index 0: the listener of its node
\* was not called, the listener of the array was
C19_Witness ==
    /\ result.op = "shift" /\ result.node = 3 /\ result.err = ""
    /\ nodes[5].key = "0"
    /\ \E l \in DOMAIN listeners : listeners[l].node = 5 /\ Calls(l) = {}
    /\ \E l \in DOMAIN listeners : listeners[l].node = 3 /\ Calls(l) # {}

(***************************************************************************)
(* Array mutators called through a proxy                                   *)
(***************************************************************************)
\* o = observable({a: [2, 1], b: [{id: 1}, {id: 2}]}, false) with o.a and o.b
\* accessed, r = observable([2, 1]); a listener on o, o.a, o.b and r
MutateTrees ==
    observable(proxiesOf(observable(Empty, ObjAB(LArr(<<LP(2), LP(1)>>), LArr(<<Elem(1), Elem(2)>>)), "false"),
                         <<<<1, "a">>, <<1, "b">>>>, 1),
               LArr(<<LP(2), LP(1)>>), "false")

InitMutate == Start(listenersOf(MutateTrees, <<<<1, "deep">>, <<2, "deep">>, <<3, "deep">>, <<4, "deep">>>>, 1))

Mutators == {"push", "pop", "shift", "unshift", "splice", "sort", "reverse", "fill", "copyWithin"}

\* the argument given to a mutator on node n: an element for push, unshift
\* and fill, an index for splice and copyWithin
MutateArg(n, prop) ==
    IF prop \in {"splice", "copyWithin"} THEN LP(1)
    ELSE IF prop \in {"push", "unshift", "fill"} THEN (IF n = 3 THEN Elem(3) ELSE LP(3))
    ELSE LU

NextMutate ==
    \/ \E prop \in Mutators : Mutate(2, prop, MutateArg(2, prop))
    \/ \E prop \in {"push", "pop", "unshift", "splice", "reverse"} : Mutate(3, prop, MutateArg(3, prop))
    \/ \E prop \in {"push", "shift", "sort", "fill", "copyWithin"} : Mutate(4, prop, MutateArg(4, prop))

SpecMutate == InitMutate /\ [][NextMutate]_vars

\* the step is a mutator called through the proxy of node n that returned
MutateStep(n) == result'.node = n /\ result'.op \in Mutators /\ result'.err = ""

\* the elements of an array given as plain data
SeqOf(a) == [i \in 1..a.v |-> a.f[IdxKey(i - 1)]]

\* what Array.prototype[prop] makes of the elements q
MutatedElems(prop, q, arg) ==
    CASE prop = "push" -> Append(q, arg)
      [] prop = "pop" -> SubSeq(q, 1, Len(q) - 1)
      [] prop = "shift" -> SubSeq(q, 2, Len(q))
      [] prop = "unshift" -> <<arg>> \o q
      [] prop = "reverse" -> [i \in 1..Len(q) |-> q[Len(q) + 1 - i]]
      [] prop = "fill" -> [i \in 1..Len(q) |-> arg]
      [] prop = "splice" -> SubSeq(q, 1, IF arg.v < Len(q) THEN arg.v ELSE Len(q))
      [] prop = "copyWithin" -> [i \in 1..Len(q) |-> IF i <= arg.v THEN q[i] ELSE q[i - arg.v]]
      [] OTHER -> q

\* a is q sorted without comparator: numbers ascending, objects left in place
SortedFrom(q, a) ==
    IF \A i \in DOMAIN q : q[i].t = "prim"
    THEN /\ Len(a) = Len(q)
         /\ \A x \in {q[i] : i \in DOMAIN q} :
               Cardinality({i \in DOMAIN q : q[i] = x}) = Cardinality({i \in DOMAIN a : a[i] = x})
         /\ \A i, j \in DOMAIN a : i < j => a[i].v <= a[j].v
    ELSE a = q

\* ret, as plain data, is what Array.prototype[prop] returns for elements q
NativeReturn(prop, q, arg, ret) ==
    CASE prop \in {"push", "unshift"} -> ret = LP(Len(q) + 1)
      [] prop = "pop" -> ret = IF q = <<>> THEN LU ELSE q[Len(q)]
      [] prop = "shift" -> ret = IF q = <<>> THEN LU ELSE q[1]
      [] prop = "splice" ->
           /\ ret.t = "arr"
           /\ SeqOf(ret) = SubSeq(q, (IF arg.v < Len(q) THEN arg.v ELSE Len(q)) + 1, Len(q))
      [] OTHER -> TRUE

\* C20: a mutator called through the proxy of an array node returns what the
\* native method returns (the array itself for sort, reverse, fill and
\* copyWithin); afterwards the node holds the same array object, natively
\* mutated; and each listener of the node is called once, with the mutated
\* array as value and the contents before the mutation as previous value.
C20_MutatorThroughSetKey ==
    [][\A n \in DOMAIN nodes :
          MutateStep(n) =>
              /\ NativeReturn(result'.op, SeqOf(NodeValue(n)), result'.arg,
                              Snap(Cur', result'.ret))
              /\ result'.op \in {"sort", "reverse", "fill", "copyWithin"} =>
                     result'.ret = getNodeValue(Cur, n)
              /\ getNodeValue(Cur', n) = getNodeValue(Cur, n)
              /\ ValueAt(Cur', n).t = "arr"
              /\ IF result'.op = "sort"
                 THEN SortedFrom(SeqOf(NodeValue(n)), SeqOf(ValueAt(Cur', n)))
                 ELSE SeqOf(ValueAt(Cur', n)) =
                        MutatedElems(result'.op, SeqOf(NodeValue(n)), result'.arg)
              /\ \A l \in DOMAIN listeners :
                    listeners[l].node = n =>
                        /\ Cardinality(Calls(l)') = 1
                        /\ \A i \in Calls(l)' :
                              /\ fired'[i].prev = NodeValue(n)
                              /\ fired'[i].value = ValueAt(Cur', n)]_vars

\* o.b.splice(1) has removed {id: 2}: the call returned [{id: 2}] and the
\* listener of o.b was given the array of one element, previous value the
\* array of two
C20_Witness ==
    /\ result.op = "splice" /\ result.node = 3 /\ result.err = ""
    /\ Snapshot(heap, result.ret, MaxDepth) = LArr(<<Elem(2)>>)
    /\ \E i \in DOMAIN fired :
          /\ listeners[fired[i].l].node = 3
          /\ fired[i].prev.v = fired[i].value.v + 1
          /\ fired[i].value = NodeValue(3)

(***************************************************************************)
(* Writes through the value accessor                                       *)
(***************************************************************************)
\* o = observable({a: 1, b: {a: 1}}, safe) with o.a and o.b accessed, safe
\* false or left out (strict safe mode refuses every assignment)
InitValue ==
    \E safe \in {"false", "undefined"} :
        Start(proxiesOf(observable(Empty, ObjAB(LP(1), ObjA(LP(1))), safe),
                        <<<<1, "a">>, <<1, "b">>>>, 1))

NextValue ==
    \/ \E n \in DOMAIN nodes, lit \in {LP(2), LP(3)} : ProxyAssign(n, "value", lit)
    \/ \E n \in DOMAIN nodes, lit \in {LP(1), ObjA(LP(2))} : Set(n, lit)
    \/ \E n \in DOMAIN nodes : ProxyGet(n, "value")

SpecValue == InitValue /\ [][NextValue]_vars

\* the step is proxy.value = primitive on node n, which holds a primitive,
\* while no write is in progress
ValueWrite(n) ==
    /\ ops' = ops + 1
    /\ result'.op = "proxySet" /\ result'.node = n /\ result'.key = "value"
    /\ result'.arg.t = "prim"
    /\ isPrimitive(getNodeValue(Cur, n))
    /\ ~inSet /\ ~inAssign

\* the object that holds node n has the property "value"
ParentHasValueKey(s, n) ==
    s.nodes[n].parent # 0 /\ Lookup(s.heap, getNodeValue(s, s.nodes[n].parent), "value") # Undef

\* C21: proxy.value = primitive on a node that holds a primitive, root node
\* or not, completes without error, makes the primitive the value of that
\* node, adds no property "value" to the object holding the node, and
\* proxy.value then reads the primitive.
C21_ValueAccessorWrite ==
    [][\A n \in DOMAIN nodes :
          ValueWrite(n) =>
              /\ result'.err = "" /\ result'.trap
              /\ ValueAt(Cur', n) = result'.arg
              /\ ParentHasValueKey(Cur', n) => ParentHasValueKey(Cur, n)
              /\ Snap(Cur', proxyGet(Cur', n, "value").ret) = result'.arg]_vars

\* o.a.value = 2 was accepted on the node o.a, which is not a root
C21_Witness ==
    /\ result.op = "proxySet" /\ result.key = "value" /\ result.err = "" /\ result.trap
    /\ nodes[result.node].parent # 0
    /\ NodeValue(result.node) = result.arg
    /\ result.arg.t = "prim"

(***************************************************************************)
(* The flags inSet and inAssign and the batch depth after a write          *)
(***************************************************************************)
\* o = observable({a: 1, b: [1, 2]}, false) with o.a, o.b and o.a.a accessed
InitFlags ==
    Start(proxiesOf(observable(Empty, ObjAB(LP(1), LArr(<<LP(1), LP(2)>>)), "false"),
                    <<<<1, "a">>, <<1, "b">>, <<2, "a">>>>, 1))

\* set with a value, an updater, an updater that throws; assign; delete; push;
\* lock and unlock; a batch opened and closed by the caller
NextFlags ==
    \/ \E n \in DOMAIN nodes, lit \in {LP(2), LFn(2), LFn(6)} : Set(n, lit)
    \/ \E n \in DOMAIN nodes : Assign(n, ObjA(LP(2)))
    \/ \E n \in DOMAIN nodes, key \in {NoKey, "a"} : Delete(n, key)
    \/ Mutate(3, "push", LP(3))
    \/ \E b \in BOOLEAN : Lock(1, b)
    \/ BeginBatch
    \/ EndBatch

SpecFlags == InitFlags /\ [][NextFlags]_vars

\* the step is a call of set, assign, delete or an array mutator made while
\* no write is in progress, returning or throwing
WriteCall ==
    /\ ops' = ops + 1
    /\ result'.op \in {"set", "assign", "delete", "push"}
    /\ ~inSet /\ ~inAssign

\* C22: when a call of set, assign, delete or an array mutator has finished,
\* by returning or by throwing, inSet and inAssign are false and the batch
\* depth is what it was before the call.
C22_FlagsRestored ==
    [][WriteCall => (~inSet' /\ ~inAssign' /\ numInBatch' = numInBatch)]_vars

\* a set rejected by the lock inside a batch of the caller: the flags are
\* false and the batch is still the caller's
C22_Witness ==
    /\ result.op = "set" /\ result.err = "Locked"
    /\ ~inSet /\ ~inAssign /\ numInBatch = 1

(***************************************************************************)
(* The children maps after array writes                                    *)
(***************************************************************************)
\* the entry k -> c of the children map of node p names a node whose key is
\* k and whose parent is p, and c is under no other key of p
EntryConsistent(p, k) ==
    /\ nodes[nodes[p].children[k]].key = k
    /\ nodes[nodes[p].children[k]].parent = p
    /\ \A j \in DOMAIN nodes[p].children : nodes[p].children[j] = nodes[p].children[k] => j = k

\* C23: after any sequence of writes, every entry k -> n of the children map
\* of a node P has n.key = k and n.parent = P, and no node is stored under
\* two keys of the same parent.
C23_ChildrenConsistent ==
    \A p \in DOMAIN nodes : \A k \in DOMAIN nodes[p].children : EntryConsistent(p, k)

\* an array write has moved the node of the element with id 2 from index 1
\* to index 0
C23_Witness ==
    /\ result.op \in {"set", "shift"} /\ result.node = 3 /\ result.err = ""
    /\ nodes[5].key = "0" /\ nodes[5].parent = 3
    /\ nodes[3].children["0"] = 5

(***************************************************************************)
(* A persisted observable and the changes its remote store reports         *)
(***************************************************************************)
\* obs = observable({a: 1}, false) with obs.a accessed, then
\* persistObservable(obs, {local, remote}) with a remote that is readonly or not
InitPersist ==
    \E local \in BOOLEAN, remote \in {"readonly", "readwrite"} :
        Start(persistObservable(proxiesOf(observable(Empty, ObjA(LP(1)), "false"), <<<<1, "a">>>>, 1),
                                1, local, remote))

\* a write of the application, made while no batch is open
LocalSet(n, lit) == numInBatch = 0 /\ Set(n, lit)

\* the remote store reports changes, inside or outside a batch opened by the
\* application; the application writes outside batches
NextPersist ==
    \/ \E lit \in {ObjA(LP(7)), ObjA(LP(8))} : OnChangeRemote(1, lit)
    \/ \E lit \in {ObjA(LP(2)), ObjA(LP(3))} : LocalSet(1, lit)
    \/ \E lit \in {LP(2), LP(3)} : LocalSet(2, lit)
    \/ BeginBatch
    \/ EndBatch

SpecPersist == InitPersist /\ [][NextPersist]_vars

\* the calls of persistenceRemote.save in a log
SaveCalls(log) == {i \in DOMAIN log : log[i].fn = -4}

\* C24: a change applied inside onChangeRemote leads to no call of
\* persistenceRemote.save, neither during onChangeRemote nor when the batch
\* that was open around it is closed; a change the application makes outside
\* onChangeRemote, on a remote that is not readonly, leads to a call of save.
\* (In this specification the application writes only outside batches, so
\* what a closing batch dispatches are the changes made inside onChangeRemote.)
C24_RemoteChangeNotSaved ==
    [][/\ (ops' = ops + 1 /\ result'.op \in {"onChangeRemote", "endBatch"}) =>
             SaveCalls(invoked') = {}
       /\ (/\ ops' = ops + 1 /\ result'.op = "set" /\ result'.err = ""
           /\ roots[1].persist.remote = "readwrite"
           /\ RootValueAt(Cur', 1) # RootValue(1)) =>
             SaveCalls(invoked') # {}]_vars

\* the remote store has reported {a: 7} while no batch was open: the change
\* listener ran inside onChangeRemote and did not call save
C24_Witness ==
    /\ result.op = "onChangeRemote" /\ result.err = ""
    /\ roots[1].persist.remote = "readwrite" /\ ~roots[1].persist.tempDisableSaveRemote
    /\ numInBatch = 0
    /\ fired # <<>>
    /\ SaveCalls(invoked) = {}
    /\ RootValue(1) = ObjA(LP(7))

====
